---------------------------- MODULE Spec2Model ----------------------------
(***************************************************************************)
(* A model of entrace: the span store of the IET-based log providers and   *)
(* its main-thread reconciliation (entrace_core/src/remote), the producer  *)
(* side TreeLayer and storage writers, the IET/ET conversion, the remote   *)
(* (TCP) reader, the filter-set evaluator and the cooperative join of the  *)
(* query workers (entrace_query).                                          *)
(*                                                                         *)
(* Every subsystem has its own variables, initial condition and next-state *)
(* relation; a specification of one subsystem keeps the variables of the   *)
(* others at their idle values.                                            *)
(***************************************************************************)
EXTENDS Integers, Sequences, FiniteSets, TLC

VARIABLES
    \* ---- IET provider (BaseIETLogProvider and its worker thread)
    pkind,      \* "file" | "remote": which worker feeds the provider
    trace,      \* the spans of the trace, trace[i] = parent of the span with id i-1
    initK,      \* file provider: number of spans decoded by the initial load
    wpc,        \* position of the worker thread
    wsent,      \* number of spans of the trace the worker has put on the channel
    chan,       \* the unbounded channel of MainThreadMessage
    pool,       \* BaseIETLogProvider.pool (children lists)
    data,       \* BaseIETLogProvider.data (spans)
    fpc,        \* position of the main thread: "idle" | "running" | "panicked"
    fi,         \* iteration of frame_callback's for loop
    frames,     \* whether some frame_callback() has completed
    taken,      \* how many messages the running frame_callback() has received
    \* ---- TreeLayer and the storage writer thread
    counter,    \* TreeLayer.counter (AtomicU32)
    id_to_pool, \* TreeLayer.id_to_pool: the spans mapped, each named by its pool id
    live,       \* the spans whose handle exists (on_new_span has returned, not closed)
    tpc,        \* position of each producer thread inside on_new_span / on_event
    tkind,      \* what each producer thread is creating: "span" | "event"
    tparent,    \* the parent value each producer thread resolved
    tpool_id,   \* the pool id each producer thread drew from the counter
    tmade,      \* number of spans and events each producer thread has created
    drawn,      \* the pool ids the counter has handed out, in the order of the fetch_adds
    storchan,   \* the storage's unbounded channel of Message::Entry
    written,    \* parent values of the records the writer appended (root first)
    child_lists,\* the writer's child_lists
    writerpc,   \* "running" | "panicked"
    \* ---- JoinCtx and the query worker threads calling en_join
    is_joining,     \* JoinCtx.is_joining (AtomicBool)
    threads_joined, \* JoinCtx.threads_joined (AtomicUsize)
    thread_count,   \* JoinCtx.thread_count
    jresults,       \* JoinCtx.results (behind the RwLock)
    partial,        \* the list each worker passes to en_join
    jpc,            \* position of each worker inside en_join
    joined_cnt,     \* each worker's local joined_cnt
    jret,           \* what en_join returned to each worker: "Ok" | "JoinShutdown"
    jout,           \* the list en_join returned with Ok
    arrived,        \* the workers in the order of their fetch_add
    \* ---- RemoteLogProvider's worker and its client
    rrecords,     \* the records the client sends, the root first
    rstream,      \* the bytes the client sends
    rarrived,     \* how many of them have reached the worker's socket
    rclosed,      \* whether the client's FIN has arrived
    rpos,         \* how many bytes the worker's reader has consumed
    read_state,   \* RemoteWorkerState.read_state
    content_len,  \* the content length read_loop_body is reading a body for
    event_buf,    \* RemoteWorkerState.event_buf
    rtx,          \* the MainThreadMessages the worker has sent
    revents,      \* the kinds of IETEvent the worker has sent
    rinfo,        \* the IETInfo events sent on the event channel, in order
    rpc,          \* "start" | "accept" | "noaccept" | "loop" | "body" | "block" | "closing" | "done" | "failed"
    \* ---- the IET and ET writers and the conversions
    cmode,          \* which writer captures the trace: "iet" | "et"
    ctrace,         \* the spans the producer emits after the root
    cnext,          \* how many of them the writer has written
    cfile,          \* the writer's file: IET bytes
    offsets,        \* the ET writer's offset table
    et_child_lists, \* the ET writer's child lists
    cur_offset,     \* the ET writer's cur_offset
    cstage,         \* "writing" | "finished" | "converted" | "round_trip" | "failed"
    first,          \* the file the writer handed over
    mid,            \* the output of the first conversion
    final,          \* the output of the second conversion
    \* ---- the filter-set Evaluator and the Lua filterset API
    ev_pool,        \* Evaluator.pool, the node with id i at index i+1
    predicates,     \* Evaluator.predicates
    results,        \* Evaluator.results
    nroot,          \* normalize's root
    worklist,       \* normalize's worklist
    parent_of,      \* normalize's parent_of, parent_of[i+1] for the node i
    any_action,     \* inner's any_action for the node at the front of the worklist
    matcher,        \* the Matcher handed to materialize: "YesMan" | "En"
    epc,            \* where the evaluator's user is
    lua_filters,    \* the filtersets the script hands to union / intersect
    lua_op,         \* "none" | "union" | "intersect"
    lua_fs,         \* the filterset table the script built
    lua_out,        \* the ids en_filterset_materialize returned
    \* ---- the worker that watches an IET file (IETNotifyWorker)
    nw_file,            \* the bytes of the file
    nw_file_pos,        \* the position of the File handle
    nw_reader_pos,      \* the position of the worker's BufReader
    last_good_position, \* IETNotifyWorker::last_good_position
    nw_read_state,      \* IETNotifyWorker::read_state
    nw_tx,              \* the entries sent to the main thread
    nw_event_tx,        \* the errors sent to the event channel
    nw_arx,             \* the Modify(Data) events the watcher has queued
    nw_errors,          \* decode errors, not unexpected ends, since the last entry
    nw_pc,              \* where the provider and its worker are
    \* ---- the query dispatcher (SearchState::new_query)
    query_results,  \* results: the slot of each thread
    query_setup,    \* how setup_lua_on_arc_rwlock ended in each thread
    query_loaded,   \* how the evaluation of the query ended in each thread
    query_pc,       \* where each thread is
    query_tx,       \* what the controller has sent on tx
    \* ---- the ranges of a query (the controller thread of SearchState::new_query)
    num_threads,      \* QuerySettings.num_threads
    provider_len,     \* trace_provider.len() when the controller reads it
    overflow_checks,  \* whether the build has overflow checks (dev has, release has not)
    spans_len,        \* the controller's spans_len
    threads,          \* the controller's threads
    items_per_thread, \* the controller's items_per_thread
    ranges,           \* the controller's ranges
    underflowed,      \* whether a u32 subtraction of the controller went below 0
    dispatch_pc,      \* "off" | "idle" | "spawned" | "ranged" | "panicked"
    \* ---- the RwLock around the trace provider (setup_lua_on_arc_rwlock, LogState::on_frame)
    tp_readers,   \* the query threads that hold the read lock
    tp_len,       \* len() of the provider behind the lock
    tp_queued,    \* the Insert messages waiting in the channel of the provider
    tp_delayed,   \* whether the last on_frame found the lock taken
    script_pc,    \* per query thread: "running" | "in_call" | "done"
    script_reads, \* per query thread: what its len() calls returned, in order
    \* ---- IETStorage: its callers, its channel and its writer thread
    iet_length_prefixed, \* IETStorageConfig.length_prefixed
    iet_rx,              \* the channel of RemoteMessage
    iet_sends,           \* every RemoteMessage sent on the channel, in the order of the sends
    iet_writable,        \* config.writable: the bytes written so far
    iet_writer_pc,       \* the writer thread: "magic" | "root" | "recv" | "returned"
    iet_finish_pc,       \* finish(): "open" | "shutdown_sent" | "joined"
    iet_sink,            \* what finish() returned
    \* ---- load_iet_trace over the bytes of a stream that ends inside a record
    ld_records,         \* the complete records of the stream, the root first
    ld_reader,          \* the bytes the reader gives
    ld_length_prefixed, \* load_iet_trace's length_prefixed
    ld_result,          \* what load_iet_trace returned
    ld_pc,              \* "off" | "ready" | "loaded"
    \* ---- a predicate on meta.level and en_metadata_level over one span
    lv_meta,     \* the metadata of the span: its level
    lv_relation, \* the relation of the predicate
    lv_value,    \* the constant of the predicate
    lv_result,   \* what meta_matches returned, <<>> before it has
    lv_reported, \* what en_metadata_level returned
    \* ---- values_match over one attribute value and one constant
    vm_comparator, \* the relation asked for
    vm_span_value, \* the value of the attribute of the span
    vm_value,      \* the constant of the predicate
    vm_result,     \* what values_match returned, <<>> before it has
    \* ---- the same graph materialized as it was built and after normalize
    eq_plain, \* what materialize left for the graph as it was built
    \* ---- the two subset_matching_dnf of EnMatcher, on one clause list and input
    md_clauses,  \* the clause list: lists of indices into the predicate pool
    md_input,    \* the input id set
    md_default,  \* <<>> or the outcome of the Matcher trait's default subset_matching_dnf
    md_override, \* <<>> or the outcome of EnMatcher's subset_matching_dnf
    \* ---- an IET file that is opened through load_trace and watched
    fw_length_prefixed,        \* whether the magic of the file says IET-prefixed: what load_trace passes on
    fw_records,                \* the records the traced program has written to the file
    fw_file,                   \* the bytes of the file after the magic
    fw_pc,                     \* "off" | "closed" | "loaded" | "watching" | "failed"
    fw_worker_length_prefixed, \* IETNotifyWorker.length_prefixed
    fw_reader_pos,             \* the position of the worker's reader
    fw_last_good_position,     \* IETNotifyWorker.last_good_position
    fw_read_state,             \* IETNotifyWorker.read_state
    fw_tx,                     \* the entries sent to the main thread: ReplaceData, then Insert and InsertMany
    fw_event_tx,               \* the errors sent on the event channel
    fw_arx                     \* the Modify(Data) events the watcher holds for the worker

providerVars == <<pkind, trace, initK, wpc, wsent, chan, pool, data, fpc, fi, frames,
                  taken>>

treeVars == <<counter, id_to_pool, live, tpc, tkind, tparent, tpool_id, tmade, drawn,
              storchan, written, child_lists, writerpc>>

joinVars == <<is_joining, threads_joined, thread_count, jresults, partial, jpc,
              joined_cnt, jret, jout, arrived>>

remoteVars == <<rrecords, rstream, rarrived, rclosed, rpos, read_state, content_len,
                event_buf, rtx, revents, rinfo, rpc>>
convertVars == <<cmode, ctrace, cnext, cfile, offsets, et_child_lists, cur_offset,
                 cstage, first, mid, final>>

filterVars == <<ev_pool, predicates, results, nroot, worklist, parent_of, any_action,
                matcher, epc, lua_filters, lua_op, lua_fs, lua_out>>

notifyVars == <<nw_file, nw_file_pos, nw_reader_pos, last_good_position, nw_read_state,
                nw_tx, nw_event_tx, nw_arx, nw_errors, nw_pc>>

searchVars == <<query_results, query_setup, query_loaded, query_pc, query_tx>>

dispatchVars == <<num_threads, provider_len, overflow_checks, spans_len, threads,
                  items_per_thread, ranges, underflowed, dispatch_pc>>

lockVars == <<tp_readers, tp_len, tp_queued, tp_delayed, script_pc, script_reads>>

storageVars == <<iet_length_prefixed, iet_rx, iet_sends, iet_writable, iet_writer_pc,
                 iet_finish_pc, iet_sink>>

loadVars == <<ld_records, ld_reader, ld_length_prefixed, ld_result, ld_pc>>

levelVars == <<lv_meta, lv_relation, lv_value, lv_result, lv_reported>>

matchVars == <<vm_comparator, vm_span_value, vm_value, vm_result>>

equivVars == <<eq_plain>>

overrideVars == <<md_clauses, md_input, md_default, md_override>>

watchVars == <<fw_length_prefixed, fw_records, fw_file, fw_pc, fw_worker_length_prefixed, fw_reader_pos, fw_last_good_position, fw_read_state, fw_tx, fw_event_tx, fw_arx>>

vars ==
    <<providerVars, treeVars, joinVars, remoteVars, convertVars, filterVars,
    notifyVars, searchVars, dispatchVars, lockVars, storageVars, loadVars,
    levelVars, matchVars, equivVars, overrideVars, watchVars>>

\* What an action of one subsystem leaves alone: the other subsystems.
notProvider ==
    <<treeVars, joinVars, remoteVars, convertVars, filterVars, notifyVars,
    searchVars, dispatchVars, lockVars, storageVars, loadVars, levelVars,
    matchVars, equivVars, overrideVars, watchVars>>
notTree ==
    <<providerVars, joinVars, remoteVars, convertVars, filterVars, notifyVars,
    searchVars, dispatchVars, lockVars, storageVars, loadVars, levelVars,
    matchVars, equivVars, overrideVars, watchVars>>
notJoin ==
    <<providerVars, treeVars, remoteVars, convertVars, filterVars, notifyVars,
    searchVars, dispatchVars, lockVars, storageVars, loadVars, levelVars,
    matchVars, equivVars, overrideVars, watchVars>>
notRemote ==
    <<providerVars, treeVars, joinVars, convertVars, filterVars, notifyVars,
    searchVars, dispatchVars, lockVars, storageVars, loadVars, levelVars,
    matchVars, equivVars, overrideVars, watchVars>>
notConvert ==
    <<providerVars, treeVars, joinVars, remoteVars, filterVars, notifyVars,
    searchVars, dispatchVars, lockVars, storageVars, loadVars, levelVars,
    matchVars, equivVars, overrideVars, watchVars>>
notFilter ==
    <<providerVars, treeVars, joinVars, remoteVars, convertVars, notifyVars,
    searchVars, dispatchVars, lockVars, storageVars, loadVars, levelVars,
    matchVars, equivVars, overrideVars, watchVars>>
notNotify ==
    <<providerVars, treeVars, joinVars, remoteVars, convertVars, filterVars,
    searchVars, dispatchVars, lockVars, storageVars, loadVars, levelVars,
    matchVars, equivVars, overrideVars, watchVars>>
notSearch ==
    <<providerVars, treeVars, joinVars, remoteVars, convertVars, filterVars,
    notifyVars, dispatchVars, lockVars, storageVars, loadVars, levelVars,
    matchVars, equivVars, overrideVars, watchVars>>
notDispatch ==
    <<providerVars, treeVars, joinVars, remoteVars, convertVars, filterVars,
    notifyVars, searchVars, lockVars, storageVars, loadVars, levelVars,
    matchVars, equivVars, overrideVars, watchVars>>
notLock ==
    <<providerVars, treeVars, joinVars, remoteVars, convertVars, filterVars,
    notifyVars, searchVars, dispatchVars, storageVars, loadVars,
    levelVars, matchVars, equivVars, overrideVars, watchVars>>
notStorage ==
    <<providerVars, treeVars, joinVars, remoteVars, convertVars, filterVars,
    notifyVars, searchVars, dispatchVars, lockVars, loadVars, levelVars,
    matchVars, equivVars, overrideVars, watchVars>>
notLoad ==
    <<providerVars, treeVars, joinVars, remoteVars, convertVars, filterVars,
    notifyVars, searchVars, dispatchVars, lockVars, storageVars,
    levelVars, matchVars, equivVars, overrideVars, watchVars>>
notLevel ==
    <<providerVars, treeVars, joinVars, remoteVars, convertVars, filterVars,
    notifyVars, searchVars, dispatchVars, lockVars, storageVars, loadVars,
    matchVars, equivVars, overrideVars, watchVars>>
notMatch ==
    <<providerVars, treeVars, joinVars, remoteVars, convertVars, filterVars,
    notifyVars, searchVars, dispatchVars, lockVars, storageVars, loadVars,
    levelVars, equivVars, overrideVars, watchVars>>
notEquiv ==
    <<providerVars, treeVars, joinVars, remoteVars, convertVars, filterVars,
    notifyVars, searchVars, dispatchVars, lockVars, storageVars, loadVars,
    levelVars, matchVars, overrideVars, watchVars>>
notOverride ==
    <<providerVars, treeVars, joinVars, remoteVars, convertVars, filterVars,
    notifyVars, searchVars, dispatchVars, lockVars, storageVars, loadVars,
    levelVars, matchVars, equivVars, watchVars>>
notWatch ==
    <<providerVars, treeVars, joinVars, remoteVars, convertVars, filterVars,
    notifyVars, searchVars, dispatchVars, lockVars, storageVars, loadVars,
    levelVars, matchVars, equivVars, overrideVars>>

----------------------------------------------------------------------------
(* Generic helpers *)

Range(s) == {s[i] : i \in 1..Len(s)}

RECURSIVE SeqSum(_)
SeqSum(s) ==
    IF s = <<>> THEN 0
    ELSE IF Len(s) = 1 THEN s[1]
    ELSE SeqSum(SubSeq(s, 1, Len(s) \div 2)) + SeqSum(SubSeq(s, Len(s) \div 2 + 1, Len(s)))

----------------------------------------------------------------------------
(***************************************************************************)
(* IET providers: worker thread -> channel -> frame_callback               *)
(***************************************************************************)

\* Largest number of spans (the root included) in a trace.
MaxSpans == 4

\* frame_callback drains at most N messages per call.
N == 50

\* The traces a producer can write: the root first (parent 0), every other
\* span names an earlier span as its parent.
Traces ==
    UNION {{t \in [1..n -> 0..(n - 1)] :
               /\ t[1] = 0
               /\ \A i \in 2..n : t[i] < i - 1} : n \in 1..MaxSpans}

\* The span with pool id k of trace t as a TraceEntry (its parent, and its
\* identity standing for message, metadata and attributes).
Entry(t, k) == [parent |-> t[k + 1], id |-> k]

\* The spans with ids from..(to-1) of trace t, in order.
Entries(t, from, to) == [i \in 1..(to - from) |-> Entry(t, from + i - 1)]

\* PoolEntry::new()
NewPoolEntry == <<>>

\* pool[parent].children.push(child) on a 0-indexed pool held 1-indexed.
PushChild(p, parent, child) ==
    [p EXCEPT ![parent + 1] = Append(@, child)]

\* load_iet_trace: the pool and the data it returns for the first k spans of t.
RECURSIVE LoadPool(_, _, _)
LoadPool(entries, p, had_root) ==
    IF entries = <<>> THEN p
    ELSE LET x == Head(entries)
             pl == Len(p)
         IN IF had_root
            THEN LoadPool(Tail(entries), Append(PushChild(p, x.parent, pl), NewPoolEntry), TRUE)
            ELSE LoadPool(Tail(entries), p, TRUE)

load_iet_trace(entries) ==
    [pool |-> LoadPool(entries, <<NewPoolEntry>>, FALSE), data |-> entries]

\* send_entries / send_event_buf: one entry goes as Insert, several as InsertMany.
BatchMessage(entries) ==
    IF Len(entries) = 1
    THEN [type |-> "Insert", event |-> entries[1]]
    ELSE [type |-> "InsertMany", events |-> entries]

\* The provider's variables while another subsystem is being checked.
ProviderIdle ==
    /\ pkind = "none" /\ trace = <<>> /\ initK = 0 /\ wpc = "done" /\ wsent = 0
    /\ chan = <<>> /\ pool = <<>> /\ data = <<>> /\ fpc = "off" /\ fi = 0
    /\ frames = FALSE /\ taken = 0

ProviderInit ==
    /\ pkind \in {"file", "remote"}
    /\ trace \in Traces
    /\ initK \in IF pkind = "file" THEN 1..Len(trace) ELSE {0}
    /\ wpc = IF pkind = "file" THEN "start" ELSE "streaming"
    /\ wsent = 0
    /\ chan = <<>>
    /\ pool = <<>>
    /\ data = <<>>
    /\ fpc = "idle"
    /\ fi = 0
    /\ frames = FALSE
    /\ taken = 0

\* FileIETLogProvider's worker: tx.send(ReplaceData(initial.data))
FileSendReplaceData ==
    /\ pkind = "file" /\ wpc = "start"
    /\ chan' = Append(chan, [type |-> "ReplaceData",
                             data |-> load_iet_trace(Entries(trace, 0, initK)).data])
    /\ wpc' = "data_sent"
    /\ UNCHANGED <<pkind, trace, initK, wsent, pool, data, fpc, fi, frames, taken>>
    /\ UNCHANGED notProvider

\* FileIETLogProvider's worker: tx.send(ReplacePool(initial.pool))
FileSendReplacePool ==
    /\ pkind = "file" /\ wpc = "data_sent"
    /\ chan' = Append(chan, [type |-> "ReplacePool",
                             pool |-> load_iet_trace(Entries(trace, 0, initK)).pool])
    /\ wpc' = "streaming"
    /\ wsent' = initK
    /\ UNCHANGED <<pkind, trace, initK, pool, data, fpc, fi, frames, taken>>
    /\ UNCHANGED notProvider

\* The watch worker (send_entries) and the remote worker (send_event_buf): the
\* next b decoded spans leave as one message.
WorkerSendBatch ==
    /\ wpc = "streaming"
    /\ \E b \in 1..(Len(trace) - wsent) :
          /\ chan' = Append(chan, BatchMessage(Entries(trace, wsent, wsent + b)))
          /\ wsent' = wsent + b
    /\ UNCHANGED <<pkind, trace, initK, wpc, pool, data, fpc, fi, frames, taken>>
    /\ UNCHANGED notProvider

\* Whether applying msg to a pool of this length indexes out of bounds.
ApplyPanics(p, msg) ==
    CASE msg.type = "Insert" ->
            Len(p) # 0 /\ msg.event.parent >= Len(p) + 1
      [] msg.type = "InsertMany" ->
            \E i \in 1..Len(msg.events) :
                /\ (i - 1) + Len(p) # 0
                /\ msg.events[i].parent >= Len(p) + Len(msg.events)
      [] OTHER -> FALSE

\* InsertMany's loop over events.iter().enumerate(), from the i-th event on.
RECURSIVE InsertManyChildren(_, _, _, _)
InsertManyChildren(p, events, i, old_pl) ==
    IF i > Len(events) THEN p
    ELSE LET idx == (i - 1) + old_pl
         IN InsertManyChildren(
                IF idx # 0 THEN PushChild(p, events[i].parent, idx) ELSE p,
                events, i + 1, old_pl)

\* ApplyPool with the child's id taken after the push (one too large).
ApplyPoolLateLen(p, msg) ==
    CASE msg.type = "Insert" ->
            LET pushed == Append(p, NewPoolEntry)
                pl == Len(pushed)
            IN IF pl # 0 /\ Len(p) # 0 THEN PushChild(pushed, msg.event.parent, pl) ELSE pushed
      [] msg.type = "InsertMany" ->
            InsertManyChildren(p \o [i \in 1..Len(msg.events) |-> NewPoolEntry],
                               msg.events, 1, Len(p))
      [] msg.type = "ReplacePool" -> msg.pool
      [] OTHER -> p

\* The pool after frame_callback applied msg.
ApplyPool(p, msg) ==
    CASE msg.type = "Insert" ->
            LET pl == Len(p)
                pushed == Append(p, NewPoolEntry)
            IN IF pl # 0 THEN PushChild(pushed, msg.event.parent, pl) ELSE pushed
      [] msg.type = "InsertMany" ->
            InsertManyChildren(p \o [i \in 1..Len(msg.events) |-> NewPoolEntry],
                               msg.events, 1, Len(p))
      [] msg.type = "ReplacePool" -> msg.pool
      [] OTHER -> p

\* ApplyData with the spans of an InsertMany left out.
ApplyDataSingleOnly(d, msg) ==
    CASE msg.type = "Insert" -> Append(d, msg.event)
      [] msg.type = "ReplaceData" -> msg.data
      [] OTHER -> d

\* The span array after frame_callback applied msg.
ApplyData(d, msg) ==
    CASE msg.type = "Insert" -> Append(d, msg.event)
      [] msg.type = "InsertMany" -> d \o msg.events
      [] msg.type = "ReplaceData" -> msg.data
      [] OTHER -> d

\* The main thread enters frame_callback().
FrameStart ==
    /\ fpc = "idle"
    /\ fpc' = "running"
    /\ fi' = 0
    /\ taken' = 0
    /\ UNCHANGED <<pkind, trace, initK, wpc, wsent, chan, pool, data, frames>>
    /\ UNCHANGED notProvider

\* try_recv() taking the newest message of the channel instead of the oldest.
FrameTryRecvNewest ==
    /\ fpc = "running" /\ fi < N
    /\ IF chan = <<>>
       THEN UNCHANGED <<chan, pool, data, fpc>>
       ELSE /\ chan' = SubSeq(chan, 1, Len(chan) - 1)
            /\ IF ApplyPanics(pool, chan[Len(chan)])
               THEN fpc' = "panicked" /\ UNCHANGED <<pool, data>>
               ELSE /\ pool' = ApplyPool(pool, chan[Len(chan)])
                    /\ data' = ApplyData(data, chan[Len(chan)])
                    /\ UNCHANGED fpc
    /\ fi' = fi + 1
    /\ taken' = IF chan = <<>> THEN taken ELSE taken + 1
    /\ UNCHANGED <<pkind, trace, initK, wpc, wsent, frames>>
    /\ UNCHANGED notProvider

\* One iteration of the for loop: try_recv() and the match on its result.
FrameTryRecv ==
    /\ fpc = "running" /\ fi < N
    /\ IF chan = <<>>
       THEN UNCHANGED <<chan, pool, data, fpc>>
       ELSE /\ chan' = Tail(chan)
            /\ IF ApplyPanics(pool, Head(chan))
               THEN fpc' = "panicked" /\ UNCHANGED <<pool, data>>
               ELSE /\ pool' = ApplyPool(pool, Head(chan))
                    /\ data' = ApplyData(data, Head(chan))
                    /\ UNCHANGED fpc
    /\ fi' = fi + 1
    /\ taken' = IF chan = <<>> THEN taken ELSE taken + 1
    /\ UNCHANGED <<pkind, trace, initK, wpc, wsent, frames>>
    /\ UNCHANGED notProvider

\* frame_callback() returns after N iterations.
FrameReturn ==
    /\ fpc = "running" /\ fi = N
    /\ fpc' = "idle"
    /\ frames' = TRUE
    /\ UNCHANGED <<pkind, trace, initK, wpc, wsent, chan, pool, data, fi, taken>>
    /\ UNCHANGED notProvider

\* LogProvider::len()
len == Len(data)

\* LogProvider::parent(idx), for idx < len()
parent(idx) == data[idx + 1].parent

\* LogProvider::children(x): the slice, or OutOfBounds
children(x) ==
    IF x < Len(pool) THEN [ok |-> TRUE, list |-> pool[x + 1]]
    ELSE [ok |-> FALSE, list |-> <<>>]

ProviderNext ==
    \/ FileSendReplaceData
    \/ FileSendReplacePool
    \/ WorkerSendBatch
    \/ FrameStart
    \/ FrameTryRecv
    \/ FrameReturn

\* Both Replace messages of a file provider (if any) have been applied: what
\* is left on the channel and what the worker still sends are inserts.
OnlyInsertsPending ==
    /\ wpc = "streaming"
    /\ \A i \in 1..Len(chan) : chan[i].type \in {"Insert", "InsertMany"}

\* C1: after each completed frame_callback() the pool and the span array
\* have the same length, and len() equals that length.
C1_LenAgreesAfterFrame ==
    (frames /\ fpc = "idle") => (Len(pool) = Len(data) /\ len = Len(pool))

\* C3: once the root and the inserts after it have been applied, every pool
\* id i with 0 < i < len() has parent(i) < i and i is in children(parent(i)).
C3_ParentChildLinks ==
    (OnlyInsertsPending /\ fpc # "panicked") =>
        \A i \in 1..(len - 1) :
            /\ parent(i) < i
            /\ children(parent(i)).ok
            /\ i \in Range(children(parent(i)).list)

\* A remote provider whose store holds a chain root <- 1 <- 2 after a
\* completed frame_callback().
C3_Witness ==
    /\ pkind = "remote" /\ frames /\ fpc = "idle"
    /\ len >= 3 /\ parent(1) = 0 /\ parent(2) = 1
    /\ Len(pool) = len

\* What an accessor returns: Ok, or OutOfBounds { idx, len: self.len() }.
Found(idx) == [ok |-> TRUE, idx |-> idx, len |-> len]

OutOfBounds(idx) == [ok |-> FALSE, idx |-> idx, len |-> len]

\* parent, attrs, header and meta of BaseIETLogProvider: self.data.get(idx)
data_get(idx) == IF idx < Len(data) THEN Found(idx) ELSE OutOfBounds(idx)

\* children of BaseIETLogProvider: self.pool.get(x)
pool_get(x) == IF x < Len(pool) THEN Found(x) ELSE OutOfBounds(x)

\* C25: between two frame_callback()s every accessor of the provider
\* succeeds for an id below len() and returns OutOfBounds with that id and
\* len() for any other id.
C25_OutOfBoundsIffBeyondLen ==
    fpc = "idle" =>
        \A x \in 0..MaxSpans :
            /\ data_get(x) = IF x < len THEN Found(x) ELSE OutOfBounds(x)
            /\ pool_get(x) = IF x < len THEN Found(x) ELSE OutOfBounds(x)

\* Largest number of spans the worker sends while frames run.
MaxLate == 2

\* How many Inserts wait on the channel when the first frame begins.
QueuedAtStart == {0, 1, N - 1, N, N + 1}

\* A trace of n spans under one root.
FlatTrace(n) == [i \in 1..n |-> 0]

\* A remote provider whose worker has sent its first spans one by one before
\* the GUI has drawn a frame.
FrameInit ==
    /\ pkind = "remote"
    /\ \E k \in QueuedAtStart :
          /\ trace = FlatTrace(k + MaxLate)
          /\ wsent = k
          /\ chan = [i \in 1..k |-> BatchMessage(Entries(trace, i - 1, i))]
    /\ initK = 0
    /\ wpc = "streaming"
    /\ pool = <<>>
    /\ data = <<>>
    /\ fpc = "idle"
    /\ fi = 0
    /\ frames = FALSE
    /\ taken = 0

FrameNext ==
    \/ WorkerSendBatch
    \/ FrameStart
    \/ FrameTryRecv
    \/ FrameReturn

\* The spans of the Insert and InsertMany messages of a channel, in order.
RECURSIVE Events(_)
Events(c) ==
    IF c = <<>> THEN <<>>
    ELSE (IF Head(c).type = "Insert" THEN <<Head(c).event>> ELSE Head(c).events)
         \o Events(Tail(c))

\* C26: a frame_callback() receives at most 50 messages; the spans applied,
\* followed by the spans still on the channel, are the spans in the order
\* the worker sent them; and with the channel empty the call does not wait:
\* it has a step of its own until it returns.
C26_FrameTakesAtMostFifty ==
    /\ taken <= 50
    /\ data \o Events(chan) = Entries(trace, 0, wsent)
    /\ (fpc = "running" /\ chan = <<>>) => ENABLED (FrameTryRecv \/ FrameReturn)

C26_Witness ==
    /\ fpc = "idle" /\ frames /\ taken = 50
    /\ Len(data) = 50 /\ Len(chan) = 2 /\ chan[2].type = "InsertMany"

\* C35: the spans in the store and the spans still on the channel are,
\* together, the spans the worker has sent, each once and in the order of
\* the sends; and with frame_callback() called again and again the store
\* comes to hold the n-th span once it has been sent, for every n, also
\* when more than N messages wait.
C35_InsertsEventuallyApplied ==
    /\ [](/\ data = Entries(trace, 0, Len(data))
          /\ Len(data) + Len(Events(chan)) = wsent)
    /\ \A n \in 1..(N + 1 + MaxLate) : (wsent >= n) ~> (Len(data) >= n)

\* The worker was N + 1 messages ahead when the first frame began and sent
\* more afterwards; every span is in the store.
C35_Witness ==
    /\ fpc = "idle" /\ frames /\ chan = <<>>
    /\ wsent = N + 1 + MaxLate /\ Len(data) = wsent

----------------------------------------------------------------------------
(***************************************************************************)
(* TreeLayer (producer threads) and the ET storage writer thread           *)
(***************************************************************************)

\* Number of producer threads.
NumProducers == 2

\* Spans and events each producer thread creates.
MaxCreates == 2

Producers == 1..NumProducers

\* The parent value meaning "child of the root".
RootId == 0

TreeIdle ==
    /\ counter = 0 /\ id_to_pool = {} /\ live = {}
    /\ tpc = <<>> /\ tkind = <<>> /\ tparent = <<>> /\ tpool_id = <<>> /\ tmade = <<>>
    /\ drawn = <<>>
    /\ storchan = <<>> /\ written = <<>> /\ child_lists = <<>> /\ writerpc = "off"

\* TreeLayer::from_storage and ETStorage::init: the writer has written the
\* magic and the root record; offsets = [0], child_lists = [PoolEntry::new()].
TreeInit ==
    /\ counter = 0 /\ id_to_pool = {} /\ live = {}
    /\ tpc = [t \in Producers |-> "idle"]
    /\ tkind = [t \in Producers |-> "span"]
    /\ tparent = [t \in Producers |-> 0]
    /\ tpool_id = [t \in Producers |-> 0]
    /\ tmade = [t \in Producers |-> 0]
    /\ drawn = <<>>
    /\ storchan = <<>>
    /\ written = <<RootId>>
    /\ child_lists = <<NewPoolEntry>>
    /\ writerpc = "running"

\* TreeLayer::id_to_pool_index: the pool id mapped to span x, or 0 when the
\* map has no entry (the span becomes a child of the root).
id_to_pool_index(x) == IF x \in id_to_pool THEN x ELSE RootId

\* on_new_span / on_event, first part: the parent is resolved, from an explicit
\* or contextual parent span whose handle the thread holds, or to the root.
ResolveParent(t) ==
    /\ tpc[t] = "idle" /\ tmade[t] < MaxCreates
    /\ \E kind \in {"span", "event"} :
       \E ps \in live \cup {RootId} :
          /\ tkind' = [tkind EXCEPT ![t] = kind]
          /\ tparent' = [tparent EXCEPT ![t] =
                            IF ps = RootId THEN 0 ELSE id_to_pool_index(ps)]
    /\ tpc' = [tpc EXCEPT ![t] = "resolved"]
    /\ UNCHANGED <<counter, id_to_pool, live, tpool_id, tmade, storchan, written,
                   child_lists, writerpc, drawn>>
    /\ UNCHANGED notTree

\* fetch_add without the + 1: the value the counter had.
FetchAddPrevious(t) ==
    /\ tpc[t] = "resolved"
    /\ counter' = counter + 1
    /\ tpool_id' = [tpool_id EXCEPT ![t] = counter]
    /\ drawn' = Append(drawn, counter)
    /\ tpc' = [tpc EXCEPT ![t] = "counted"]
    /\ UNCHANGED <<id_to_pool, live, tkind, tparent, tmade, storchan, written,
                   child_lists, writerpc>>
    /\ UNCHANGED notTree

\* self.counter.fetch_add(1, SeqCst) + 1
FetchAdd(t) ==
    /\ tpc[t] = "resolved"
    /\ counter' = counter + 1
    /\ tpool_id' = [tpool_id EXCEPT ![t] = counter + 1]
    /\ drawn' = Append(drawn, counter + 1)
    /\ tpc' = [tpc EXCEPT ![t] = "counted"]
    /\ UNCHANGED <<id_to_pool, live, tkind, tparent, tmade, storchan, written,
                   child_lists, writerpc>>
    /\ UNCHANGED notTree

\* on_new_span only: self.id_to_pool.write().unwrap().insert(id, pool_id)
MapInsert(t) ==
    /\ tpc[t] = "counted" /\ tkind[t] = "span"
    /\ id_to_pool' = id_to_pool \cup {tpool_id[t]}
    /\ tpc' = [tpc EXCEPT ![t] = "mapped"]
    /\ UNCHANGED <<counter, live, tkind, tparent, tpool_id, tmade, storchan, written,
                   child_lists, writerpc, drawn>>
    /\ UNCHANGED notTree

\* storage.new_span / new_event: sender.send(Message::Entry(entry)); the call
\* returns and, for a span, its handle exists from now on.
StorageSend(t) ==
    /\ \/ tpc[t] = "mapped"
       \/ tpc[t] = "counted" /\ tkind[t] = "event"
    /\ storchan' = Append(storchan, [parent |-> tparent[t], pool_id |-> tpool_id[t]])
    /\ live' = IF tkind[t] = "span" THEN live \cup {tpool_id[t]} ELSE live
    /\ tmade' = [tmade EXCEPT ![t] = @ + 1]
    /\ tpc' = [tpc EXCEPT ![t] = "idle"]
    /\ UNCHANGED <<counter, id_to_pool, tkind, tparent, tpool_id, written,
                   child_lists, writerpc, drawn>>
    /\ UNCHANGED notTree

\* on_close: the last handle of span s is dropped.
OnClose(s) ==
    /\ s \in live
    /\ live' = live \ {s}
    /\ id_to_pool' = id_to_pool \ {s}
    /\ UNCHANGED <<counter, tpc, tkind, tparent, tpool_id, tmade, storchan, written,
                   child_lists, writerpc, drawn>>
    /\ UNCHANGED notTree

\* The writer thread's loop body for Message::Entry: child_lists[entry.parent]
\* panics when the index is out of bounds.
WriterRecv ==
    /\ writerpc = "running" /\ storchan # <<>>
    /\ storchan' = Tail(storchan)
    /\ LET entry == Head(storchan)
           l == Len(child_lists)
       IN IF entry.parent >= Len(child_lists)
          THEN /\ writerpc' = "panicked"
               /\ UNCHANGED <<written, child_lists>>
          ELSE /\ child_lists' = Append(PushChild(child_lists, entry.parent, l), NewPoolEntry)
               /\ written' = Append(written, entry.parent)
               /\ UNCHANGED writerpc
    /\ UNCHANGED <<counter, id_to_pool, live, tpc, tkind, tparent, tpool_id, tmade, drawn>>
    /\ UNCHANGED notTree

TreeNext ==
    \/ \E t \in Producers : ResolveParent(t)
    \/ \E t \in Producers : FetchAdd(t)
    \/ \E t \in Producers : MapInsert(t)
    \/ \E t \in Producers : StorageSend(t)
    \/ \E s \in live : OnClose(s)
    \/ WriterRecv

\* C2: every record appended at position i > 0 carries a parent value
\* strictly less than i, so child_lists[parent] is always in bounds.
C2_ParentBelowPosition ==
    /\ writerpc # "panicked"
    /\ \A i \in 2..Len(written) : written[i] < i - 1

\* C23: whatever the interleaving of on_new_span and on_event on several
\* threads, the pool ids the counter hands out are 1, 2, ..., n in the order
\* of the fetch_adds: none twice, none left out, never 0, and no two calls
\* in flight hold the same id.
C23_PoolIdsDense ==
    /\ counter = Len(drawn)
    /\ \A i \in 1..Len(drawn) : drawn[i] = i
    /\ \A t, u \in DOMAIN tpc :
          (t # u /\ tpc[t] \in {"counted", "mapped"} /\ tpc[u] \in {"counted", "mapped"})
              => tpool_id[t] # tpool_id[u]

C23_Witness ==
    /\ Len(drawn) = NumProducers * MaxCreates
    /\ \E t, u \in DOMAIN tpc :
          /\ t # u /\ tpc[t] = "counted" /\ tpc[u] = "counted"
          /\ tkind[t] = "span" /\ tkind[u] = "event"

\* C38: with several producer threads creating spans concurrently, the pool id
\* on_new_span records in id_to_pool for a span is the position at which the
\* writer appends that span's record (the records already appended plus the
\* messages queued before it), so a child's parent field designates the
\* record of its actual parent span.
C38_PoolIdIsRecordPosition ==
    [][\A t \in Producers :
          (StorageSend(t) /\ tkind[t] = "span" /\ writerpc = "running")
              => (tpool_id[t] = Len(written) + Len(storchan))]_vars

----------------------------------------------------------------------------
(***************************************************************************)
(* en_join: the cooperative join of the query worker threads               *)
(***************************************************************************)

\* Largest number of worker threads of one query.
MaxJoinThreads == 3

\* Largest number of ids a worker passes to en_join.
MaxPartial == 2

JoinIdle ==
    /\ is_joining = FALSE /\ threads_joined = 0 /\ thread_count = 0
    /\ jresults = <<>> /\ partial = <<>> /\ jpc = <<>> /\ joined_cnt = <<>>
    /\ jret = <<>> /\ jout = <<>> /\ arrived = <<>>

\* The ids worker t may pass: the first k ids of its own shard.
ShardList(t, k) == [i \in 1..k |-> t * MaxPartial + (i - 1)]

\* JoinCtx::from_thread_count, and every worker about to call en_join once.
JoinInit ==
    /\ is_joining = FALSE
    /\ threads_joined = 0
    /\ thread_count \in 1..MaxJoinThreads
    /\ jresults = <<>>
    /\ partial \in {f \in [1..thread_count -> UNION {{ShardList(t, k) : k \in 0..MaxPartial}
                                                       : t \in 1..thread_count}] :
                        \A t \in 1..thread_count :
                            \E k \in 0..MaxPartial : f[t] = ShardList(t, k)}
    /\ jpc = [t \in 1..thread_count |-> "call"]
    /\ joined_cnt = [t \in 1..thread_count |-> 0]
    /\ jret = [t \in 1..thread_count |-> "none"]
    /\ jout = [t \in 1..thread_count |-> <<>>]
    /\ arrived = <<>>

\* joinable.is_joining.store(true, Release)
JoinStoreJoining(t) ==
    /\ jpc[t] = "call"
    /\ is_joining' = TRUE
    /\ jpc' = [jpc EXCEPT ![t] = "fetch_add"]
    /\ UNCHANGED <<threads_joined, thread_count, jresults, partial, joined_cnt, jret,
                   jout, arrived>>
    /\ UNCHANGED notJoin

\* joined_cnt < joinable.thread_count with every worker taken for an early one.
NotLastOffByOne(cnt, tc) == cnt <= tc

\* joined_cnt < joinable.thread_count: this is not the last thread to finish.
NotLast(cnt, tc) == cnt < tc

\* let joined_cnt = joinable.threads_joined.fetch_add(1, AcqRel) + 1, and the
\* branch on it.
JoinFetchAdd(t) ==
    /\ jpc[t] = "fetch_add"
    /\ threads_joined' = threads_joined + 1
    /\ joined_cnt' = [joined_cnt EXCEPT ![t] = threads_joined + 1]
    /\ arrived' = Append(arrived, t)
    /\ jpc' = [jpc EXCEPT ![t] =
                  IF NotLast(threads_joined + 1, thread_count) THEN "contribute"
                  ELSE "reset_joining"]
    /\ UNCHANGED <<is_joining, thread_count, jresults, partial, jret, jout>>
    /\ UNCHANGED notJoin

\* Not the last: under the write lock, all_results_w.extend(results); then
\* return Err(JoinShutdown).
JoinContribute(t) ==
    /\ jpc[t] = "contribute"
    /\ jresults' = jresults \o partial[t]
    /\ jret' = [jret EXCEPT ![t] = "JoinShutdown"]
    /\ jpc' = [jpc EXCEPT ![t] = "returned"]
    /\ UNCHANGED <<is_joining, threads_joined, thread_count, partial, joined_cnt,
                   jout, arrived>>
    /\ UNCHANGED notJoin

\* The last: joinable.is_joining.store(false, Release)
JoinResetJoining(t) ==
    /\ jpc[t] = "reset_joining"
    /\ is_joining' = FALSE
    /\ jpc' = [jpc EXCEPT ![t] = "reset_count"]
    /\ UNCHANGED <<threads_joined, thread_count, jresults, partial, joined_cnt, jret,
                   jout, arrived>>
    /\ UNCHANGED notJoin

\* The last: joinable.threads_joined.store(0, Release)
JoinResetCount(t) ==
    /\ jpc[t] = "reset_count"
    /\ threads_joined' = 0
    /\ jpc' = [jpc EXCEPT ![t] = "take"]
    /\ UNCHANGED <<is_joining, thread_count, jresults, partial, joined_cnt, jret,
                   jout, arrived>>
    /\ UNCHANGED notJoin

\* The last: under the write lock, std::mem::take(&mut *all_results), extend it
\* with its own list and return Ok(old_results).
JoinTake(t) ==
    /\ jpc[t] = "take"
    /\ jout' = [jout EXCEPT ![t] = jresults \o partial[t]]
    /\ jresults' = <<>>
    /\ jret' = [jret EXCEPT ![t] = "Ok"]
    /\ jpc' = [jpc EXCEPT ![t] = "returned"]
    /\ UNCHANGED <<is_joining, threads_joined, thread_count, partial, joined_cnt,
                   arrived>>
    /\ UNCHANGED notJoin

JoinNext ==
    \/ \E t \in 1..thread_count : JoinStoreJoining(t)
    \/ \E t \in 1..thread_count : JoinFetchAdd(t)
    \/ \E t \in 1..thread_count : JoinContribute(t)
    \/ \E t \in 1..thread_count : JoinResetJoining(t)
    \/ \E t \in 1..thread_count : JoinResetCount(t)
    \/ \E t \in 1..thread_count : JoinTake(t)

\* Every worker's en_join call has returned.
AllJoinsReturned == \A t \in 1..thread_count : jpc[t] = "returned"

\* The concatenation of the workers' partial lists, worker 1 first.
RECURSIVE AllPartials(_)
AllPartials(t) == IF t = 0 THEN <<>> ELSE AllPartials(t - 1) \o partial[t]

\* C4: when all T workers have called en_join once, the list returned to the
\* surviving worker holds exactly the elements of all T partial lists, none
\* missing and none duplicated.
C4_JoinMergesAllPartials ==
    AllJoinsReturned =>
        \A t \in 1..thread_count :
            jret[t] = "Ok" =>
                /\ Range(jout[t]) = Range(AllPartials(thread_count))
                /\ Len(jout[t]) = Len(AllPartials(thread_count))

\* C5: when T workers each call en_join once, exactly one call returns Ok,
\* the one of the last worker to arrive, and the other T-1 return JoinShutdown.
C5_OneSurvivor ==
    /\ Cardinality({t \in 1..thread_count : jret[t] = "Ok"}) <= 1
    /\ \A t \in 1..thread_count :
          /\ jret[t] = "Ok" =>
                (Len(arrived) = thread_count /\ arrived[thread_count] = t)
          /\ jret[t] = "JoinShutdown" =>
                \E i \in 1..Len(arrived) : i < thread_count /\ arrived[i] = t
    /\ AllJoinsReturned =>
          /\ Cardinality({t \in 1..thread_count : jret[t] = "Ok"}) = 1
          /\ Cardinality({t \in 1..thread_count : jret[t] = "JoinShutdown"})
                = thread_count - 1

\* Three workers have all returned from en_join, one of them with Ok.
C5_Witness ==
    /\ thread_count = 3 /\ AllJoinsReturned
    /\ \E t \in 1..thread_count : jret[t] = "Ok"

----------------------------------------------------------------------------
(***************************************************************************)
(* The byte encoding of the records: bincode's config::standard()         *)
(***************************************************************************)

\* The value x of the expression e, handed to K: e is evaluated once,
\* however often K uses x.
Eval(e, K(_)) == CHOOSE y \in {K(x) : x \in {e}} : TRUE

\* Decoded integers from 2^24 on are all taken for 2^24: they are only ever
\* used as lengths, and no buffer here is that long.
Saturated == 256 * 65536

\* u64::to_le_bytes, for lengths below 2^24.
Le64(n) == <<n % 256, (n \div 256) % 256, (n \div 65536) % 256, 0, 0, 0, 0, 0>>

\* from_le_bytes of a little-endian byte sequence.
FromLe(bs) ==
    IF \E i \in 4..Len(bs) : bs[i] # 0
    THEN Saturated
    ELSE (IF Len(bs) >= 1 THEN bs[1] ELSE 0)
         + (IF Len(bs) >= 2 THEN bs[2] * 256 ELSE 0)
         + (IF Len(bs) >= 3 THEN bs[3] * 65536 ELSE 0)

\* The n bytes that follow the first pos bytes of b.
Take(b, pos, n) == SubSeq(b, pos + 1, pos + n)

\* The bytes of b after the first pos.
Rest(b, pos) == SubSeq(b, pos + 1, Len(b))

\* entrace_magic_for(version, format)
entrace_magic_for(version, format) == <<0, 69, 78, 84, 82, 65, 67, 69, version, format>>

\* StorageFormat as u8
FormatET == 0
FormatIET == 1
FormatIETPrefix == 2

\* Variable-length integer encoding of an unsigned integer.
VarintEnc(u) ==
    IF u < 251 THEN <<u>>
    ELSE IF u < 65536 THEN <<251, u % 256, u \div 256>>
    ELSE <<252, u % 256, (u \div 256) % 256, (u \div 65536) % 256, u \div 16777216>>

\* A decoding step: err is "" on success, "eof" when the input ended inside
\* the value, "invalid" for any other decode error; pos is the number of
\* bytes of the input consumed so far.
Dec(err, val, pos) == [err |-> err, val |-> val, pos |-> pos]

\* Variable-length integer decoding; top is the widest marker the target
\* type accepts (252 for u32, 253 for u64 and usize, 254 for u128).
VarintDec(b, pos, top) ==
    IF pos >= Len(b) THEN Dec("eof", 0, Len(b))
    ELSE LET m == b[pos + 1]
             n == CASE m = 251 -> 2 [] m = 252 -> 4 [] m = 253 -> 8
                    [] m = 254 -> 16 [] OTHER -> 0
         IN  IF m < 251 THEN Dec("", m, pos + 1)
             ELSE IF m > top THEN Dec("invalid", 0, pos + 1)
             ELSE IF pos + 1 + n > Len(b) THEN Dec("eof", 0, Len(b))
             ELSE Dec("", FromLe(Take(b, pos + 1, n)), pos + 1 + n)

\* Whether byte i of s is a UTF-8 continuation byte.
IsCont(s, i) == i \in 1..Len(s) /\ s[i] >= 128 /\ s[i] <= 191

\* The length of the UTF-8 sequence a lead byte opens; 0 for a byte that can
\* open none.
Utf8Width(x) ==
    IF x < 128 THEN 1
    ELSE IF x >= 194 /\ x <= 223 THEN 2
    ELSE IF x >= 224 /\ x <= 239 THEN 3
    ELSE IF x >= 240 /\ x <= 244 THEN 4
    ELSE 0

\* str::from_utf8(s).is_ok()
IsUtf8(s) ==
    \A i \in 1..Len(s) :
        IF IsCont(s, i)
        THEN \E k \in 1..3 :
                /\ i - k >= 1
                /\ ~IsCont(s, i - k)
                /\ Utf8Width(s[i - k]) > k
                /\ \A j \in (i - k + 1)..(i - 1) : IsCont(s, j)
        ELSE /\ Utf8Width(s[i]) > 0
             /\ \A j \in (i + 1)..(i + Utf8Width(s[i]) - 1) : IsCont(s, j)
             /\ (s[i] = 224 => s[i + 1] >= 160)
             /\ (s[i] = 237 => s[i + 1] <= 159)
             /\ (s[i] = 240 => s[i + 1] >= 144)
             /\ (s[i] = 244 => s[i + 1] <= 143)

\* A decoding step that follows the step e when e succeeded, and is e's
\* error otherwise.
Then(e, K(_)) ==
    Eval(e, LAMBDA r : IF r.err # "" THEN Dec(r.err, <<>>, r.pos) ELSE K(r))

\* A String: its length, then its UTF-8 bytes.
StringEnc(s) == VarintEnc(Len(s)) \o s

StringDec(b, pos) ==
    Then(VarintDec(b, pos, 253), LAMBDA l :
        IF l.pos + l.val > Len(b) THEN Dec("eof", <<>>, Len(b))
        ELSE Eval(Take(b, l.pos, l.val), LAMBDA s :
                IF IsUtf8(s) THEN Dec("", s, l.pos + l.val)
                ELSE Dec("invalid", <<>>, l.pos + l.val)))

\* An Option is <<>> for None and <<x>> for Some(x): one tag byte, then x.
OptStringEnc(o) == IF o = <<>> THEN <<0>> ELSE <<1>> \o StringEnc(o[1])

OptStringDec(b, pos) ==
    IF pos >= Len(b) THEN Dec("eof", <<>>, Len(b))
    ELSE IF b[pos + 1] = 0 THEN Dec("", <<>>, pos + 1)
    ELSE IF b[pos + 1] # 1 THEN Dec("invalid", <<>>, pos + 1)
    ELSE Then(StringDec(b, pos + 1), LAMBDA s : Dec("", <<s.val>>, s.pos))

OptU32Enc(o) == IF o = <<>> THEN <<0>> ELSE <<1>> \o VarintEnc(o[1])

OptU32Dec(b, pos) ==
    IF pos >= Len(b) THEN Dec("eof", <<>>, Len(b))
    ELSE IF b[pos + 1] = 0 THEN Dec("", <<>>, pos + 1)
    ELSE IF b[pos + 1] # 1 THEN Dec("invalid", <<>>, pos + 1)
    ELSE Then(VarintDec(b, pos + 1, 252), LAMBDA s : Dec("", <<s.val>>, s.pos))

\* LevelContainer: the variant index, Trace = 0 .. Error = 4.
LevelDec(b, pos) ==
    Then(VarintDec(b, pos, 252), LAMBDA v :
        IF v.val > 4 THEN Dec("invalid", <<>>, v.pos) ELSE v)

\* An EnValue: the variant index (String, Bytes, Bool, Float, U64, I64, U128,
\* I128), then the payload. The value decoded is the variant index with the
\* payload's bytes.
EnValueDec(b, pos) ==
    Then(VarintDec(b, pos, 252), LAMBDA t :
        LET payload(e) ==
                Then(e, LAMBDA r : Dec("", <<t.val, Take(b, t.pos, r.pos - t.pos)>>, r.pos))
        IN  IF t.val = 0 THEN payload(StringDec(b, t.pos))
            ELSE IF t.val = 1 THEN
                payload(Then(VarintDec(b, t.pos, 253), LAMBDA l :
                            IF l.pos + l.val > Len(b) THEN Dec("eof", <<>>, Len(b))
                            ELSE Dec("", <<>>, l.pos + l.val)))
            ELSE IF t.val = 2 THEN
                IF t.pos >= Len(b) THEN Dec("eof", <<>>, Len(b))
                ELSE IF b[t.pos + 1] > 1 THEN Dec("invalid", <<>>, t.pos + 1)
                ELSE Dec("", <<2, Take(b, t.pos, 1)>>, t.pos + 1)
            ELSE IF t.val = 3 THEN
                IF t.pos + 8 > Len(b) THEN Dec("eof", <<>>, Len(b))
                ELSE Dec("", <<3, Take(b, t.pos, 8)>>, t.pos + 8)
            ELSE IF t.val \in {4, 5} THEN payload(VarintDec(b, t.pos, 253))
            ELSE IF t.val \in {6, 7} THEN payload(VarintDec(b, t.pos, 254))
            ELSE Dec("invalid", <<>>, t.pos))

\* One (String, EnValue) pair of an attribute list, as a list of one.
AttrDec(b, pos) ==
    Then(StringDec(b, pos), LAMBDA k :
    Then(EnValueDec(b, k.pos), LAMBDA v :
        Dec("", <<<<k.val, v.val>>>>, v.pos)))

\* n more pairs after the decoding step r, which holds the pairs so far: the
\* first half of them, then the rest.
RECURSIVE AttrsFrom(_, _, _)
AttrsFrom(b, r, n) ==
    Eval(<<r, n>>, LAMBDA a :
        IF a[1].err # "" \/ a[2] = 0 THEN a[1]
        ELSE IF a[2] = 1
        THEN Eval(AttrDec(b, a[1].pos), LAMBDA d :
                Dec(d.err, a[1].val \o d.val, d.pos))
        ELSE AttrsFrom(b, AttrsFrom(b, a[1], a[2] \div 2), a[2] - a[2] \div 2))

\* The n (String, EnValue) pairs of an attribute list.
AttrsDec(b, pos, n) == AttrsFrom(b, Dec("", <<>>, pos), n)

RECURSIVE AttrsEnc(_)
AttrsEnc(attrs) ==
    IF attrs = <<>> THEN <<>>
    ELSE StringEnc(Head(attrs)[1]) \o VarintEnc(Head(attrs)[2][1]) \o Head(attrs)[2][2]
         \o AttrsEnc(Tail(attrs))

\* A TraceEntry with the given parent, message and span name, and the
\* metadata and attributes of an event without fields.
TraceEntry(parent_, message, name) ==
    [parent |-> parent_, message |-> message, name |-> name, target |-> <<>>,
     level |-> 2, module_path |-> <<>>, file |-> <<>>, line |-> <<>>,
     attributes |-> <<>>]

\* TraceEntry::root(): parent 0, no message, the name "root", level Trace.
TraceEntryRoot ==
    [TraceEntry(0, <<>>, <<114, 111, 111, 116>>) EXCEPT !.level = 0]

\* bincode::serde::encode of a TraceEntry: parent, message, metadata (name,
\* target, level, module_path, file, line), attributes.
EncodeEntry(e) ==
    VarintEnc(e.parent) \o OptStringEnc(e.message)
    \o StringEnc(e.name) \o StringEnc(e.target) \o VarintEnc(e.level)
    \o OptStringEnc(e.module_path) \o OptStringEnc(e.file) \o OptU32Enc(e.line)
    \o VarintEnc(Len(e.attributes)) \o AttrsEnc(e.attributes)

\* bincode::serde::decode of a TraceEntry from the bytes of b after pos.
DecodeEntry(b, pos) ==
    Then(VarintDec(b, pos, 252), LAMBDA f1 :
    Then(OptStringDec(b, f1.pos), LAMBDA f2 :
    Then(StringDec(b, f2.pos), LAMBDA f3 :
    Then(StringDec(b, f3.pos), LAMBDA f4 :
    Then(LevelDec(b, f4.pos), LAMBDA f5 :
    Then(OptStringDec(b, f5.pos), LAMBDA f6 :
    Then(OptStringDec(b, f6.pos), LAMBDA f7 :
    Then(OptU32Dec(b, f7.pos), LAMBDA f8 :
    Then(VarintDec(b, f8.pos, 253), LAMBDA f9 :
    Then(AttrsDec(b, f9.pos, f9.val), LAMBDA f10 :
        Dec("", [parent |-> f1.val, message |-> f2.val, name |-> f3.val,
                 target |-> f4.val, level |-> f5.val, module_path |-> f6.val,
                 file |-> f7.val, line |-> f8.val, attributes |-> f10.val],
            f10.pos)))))))))))

----------------------------------------------------------------------------
(***************************************************************************)
(* RemoteLogProvider's worker reading the client's stream                  *)
(***************************************************************************)

\* Largest number of spans the client sends after the root record.
MaxRemoteSpans == 2

\* The spans a client can send after the root: span i is named with the
\* letter i and hangs below the root or below an earlier span.
RemoteTraces ==
    UNION {{t \in [1..n -> 0..MaxRemoteSpans] : \A i \in 1..n : t[i] < i}
           : n \in 0..MaxRemoteSpans}

\* The records of the stream: TraceEntry::root(), then the spans.
RemoteRecords(t) ==
    <<TraceEntryRoot>> \o [i \in 1..Len(t) |-> TraceEntry(t[i], <<>>, <<96 + i>>)]

\* write_message with length_prefixed: the length as u64, then the record.
RECURSIVE PrefixedRecords(_)
PrefixedRecords(rs) ==
    IF rs = <<>> THEN <<>>
    ELSE Le64(Len(EncodeEntry(Head(rs)))) \o EncodeEntry(Head(rs))
         \o PrefixedRecords(Tail(rs))

\* Everything IETStorage writes to the socket: the magic, then the records.
ClientStream(rs) == entrace_magic_for(1, FormatIETPrefix) \o PrefixedRecords(rs)

RemoteIdle ==
    /\ rrecords = <<>> /\ rstream = <<>> /\ rarrived = 0 /\ rclosed = FALSE
    /\ rpos = 0 /\ read_state = "WantMagic" /\ content_len = 0
    /\ event_buf = <<>> /\ rtx = <<>> /\ revents = {} /\ rinfo = <<>> /\ rpc = "off"

\* The worker thread has been spawned; nothing has arrived yet.
RemoteInit ==
    /\ \/ /\ rrecords \in {RemoteRecords(t) : t \in RemoteTraces}
          /\ rstream = ClientStream(rrecords)
       \/ \* a client that connects and leaves without a byte sent
          /\ rrecords = <<>>
          /\ rstream = <<>>
    /\ rarrived = 0
    /\ rclosed = FALSE
    /\ rpos = 0
    /\ read_state = "WantMagic"
    /\ content_len = 0
    /\ event_buf = <<>>
    /\ rtx = <<>>
    /\ revents = {}
    /\ rinfo = <<>>
    /\ rpc = "start"

\* worker up to listener.accept(): ServerStarted goes to the event channel.
ServerStart ==
    /\ rpc = "start"
    /\ rinfo' = Append(rinfo, "ServerStarted")
    /\ rpc' = "accept"
    /\ UNCHANGED <<rrecords, rstream, rarrived, rclosed, rpos, read_state, content_len,
                   event_buf, rtx, revents>>
    /\ UNCHANGED notRemote

\* The mutation of Accept for C19: ReceivedConnection is sent whether accept()
\* succeeded or not.
AcceptInfoFirst ==
    /\ rpc = "accept"
    /\ rinfo' = Append(rinfo, "ReceivedConnection")
    /\ \E ok \in BOOLEAN :
          IF ok THEN rpc' = "loop" /\ UNCHANGED revents
          ELSE rpc' = "noaccept" /\ revents' = revents \cup {"Error"}
    /\ UNCHANGED <<rrecords, rstream, rarrived, rclosed, rpos, read_state, content_len,
                   event_buf, rtx>>
    /\ UNCHANGED notRemote

\* listener.accept() and what follows it: an error is sent as CannotAccept
\* and the worker returns; otherwise ReceivedConnection is sent and the
\* worker goes to its loop with a RemoteWorkerState in WantMagic.
Accept ==
    /\ rpc = "accept"
    /\ \E ok \in BOOLEAN :
          IF ok
          THEN /\ rinfo' = Append(rinfo, "ReceivedConnection")
               /\ rpc' = "loop"
               /\ UNCHANGED revents
          ELSE /\ revents' = revents \cup {"Error"}
               /\ rpc' = "noaccept"
               /\ UNCHANGED rinfo
    /\ UNCHANGED <<rrecords, rstream, rarrived, rclosed, rpos, read_state, content_len,
                   event_buf, rtx>>
    /\ UNCHANGED notRemote

\* The network delivers the next of the client's bytes.
ClientBytesArrive ==
    /\ rpc # "off"
    /\ rarrived < Len(rstream)
    /\ rarrived' = rarrived + 1
    /\ UNCHANGED <<rrecords, rstream, rclosed, rpos, read_state, content_len,
                   event_buf, rtx, revents, rpc>>
    /\ UNCHANGED rinfo
    /\ UNCHANGED notRemote

\* The client's FIN arrives after all its bytes.
ClientClose ==
    /\ rpc # "off" /\ rarrived = Len(rstream) /\ ~rclosed
    /\ rclosed' = TRUE
    /\ UNCHANGED <<rrecords, rstream, rarrived, rpos, read_state, content_len,
                   event_buf, rtx, revents, rpc>>
    /\ UNCHANGED rinfo
    /\ UNCHANGED notRemote

\* The outcomes reader.read_exact(k bytes) can have now: "ok" when the k bytes
\* are there; otherwise the bytes that are there are consumed and the read
\* ends with "eof" once the client has closed, or with "timeout" when the
\* 50 ms pass without the missing bytes.
ReadExactOutcomes(k) ==
    IF rarrived - rpos >= k THEN {"ok"}
    ELSE IF rclosed THEN {"eof"}
    ELSE {"timeout"}

\* The reader's position after read_exact(k) with outcome o.
ReadExactPos(k, o) == IF o = "ok" THEN rpos + k ELSE rarrived

\* send_event_buf: nothing for an empty buffer, Insert for one entry,
\* InsertMany for more.
send_event_buf(tx, buf) ==
    IF Len(buf) = 0 THEN tx
    ELSE IF Len(buf) = 1 THEN Append(tx, [type |-> "Insert", events |-> buf])
    ELSE Append(tx, [type |-> "InsertMany", events |-> buf])

\* read_loop_body in WantMagic: read_exact of the 10 magic bytes.
ReadMagic ==
    /\ rpc = "loop" /\ read_state = "WantMagic"
    /\ \E o \in ReadExactOutcomes(10) :
        /\ rpos' = ReadExactPos(10, o)
        /\ IF o = "ok"
           THEN read_state' = "WantMessage" /\ UNCHANGED revents
           ELSE revents' = revents \cup {"Error"} /\ UNCHANGED read_state
    /\ UNCHANGED <<rrecords, rstream, rarrived, rclosed, content_len, event_buf,
                   rtx, rpc>>
    /\ UNCHANGED rinfo
    /\ UNCHANGED notRemote

\* read_loop_body in WantMessage, up to the content length: read_exact of the
\* 8 length bytes; a timeout flushes the batch and goes to block_on_data, the
\* end of the stream flushes the batch and ends the loop.
ReadHeader ==
    /\ rpc = "loop" /\ read_state = "WantMessage"
    /\ \E o \in ReadExactOutcomes(8) :
        /\ rpos' = ReadExactPos(8, o)
        /\ CASE o = "ok" ->
                  /\ content_len' = FromLe(Take(rstream, rpos, 8))
                  /\ rpc' = "body"
                  /\ UNCHANGED <<event_buf, rtx, revents, rinfo>>
             [] o = "timeout" ->
                  /\ rtx' = send_event_buf(rtx, event_buf)
                  /\ event_buf' = <<>>
                  /\ rpc' = "block"
                  /\ UNCHANGED <<content_len, revents, rinfo>>
             [] o = "eof" ->
                  /\ revents' = revents \cup {"RemoteClosedConnection"}
                  /\ rinfo' = Append(rinfo, "RemoteClosedConnection")
                  /\ rpc' = "closing"
                  /\ UNCHANGED <<content_len, event_buf, rtx>>
    /\ UNCHANGED <<rrecords, rstream, rarrived, rclosed, read_state>>
    /\ UNCHANGED notRemote

\* The end of the stream, after RemoteClosedConnection has been sent:
\* send_event_buf, refresh and Break(None).
SendEventBufOnClose ==
    /\ rpc = "closing"
    /\ rtx' = send_event_buf(rtx, event_buf)
    /\ event_buf' = <<>>
    /\ rpc' = "done"
    /\ UNCHANGED <<rrecords, rstream, rarrived, rclosed, rpos, read_state, content_len,
                   revents, rinfo>>
    /\ UNCHANGED notRemote

\* block_on_data: fill_buf without a timeout returns once a byte has arrived
\* or the stream has ended.
BlockOnData ==
    /\ rpc = "block"
    /\ (rarrived > rpos \/ rclosed)
    /\ rpc' = "loop"
    /\ UNCHANGED <<rrecords, rstream, rarrived, rclosed, rpos, read_state,
                   content_len, event_buf, rtx, revents>>
    /\ UNCHANGED rinfo
    /\ UNCHANGED notRemote

\* read_loop_body in WantMessage, after the content length: read_exact of
\* content_len bytes; an error ends the loop with Break(Some(..)), otherwise
\* the bytes are decoded and the entry is pushed on event_buf.
ReadBody ==
    /\ rpc = "body"
    /\ \E o \in ReadExactOutcomes(content_len) :
        /\ rpos' = ReadExactPos(content_len, o)
        /\ IF o = "ok"
           THEN \E byte_buf \in {Take(rstream, rpos, content_len)} :
                \E decoded \in {DecodeEntry(byte_buf, 0)} :
                    /\ IF decoded.err = ""
                       THEN event_buf' = Append(event_buf, decoded.val)
                            /\ UNCHANGED revents
                       ELSE revents' = revents \cup {"Error"}
                            /\ UNCHANGED event_buf
                    /\ rpc' = "loop"
           ELSE /\ revents' = revents \cup {"Error"}
                /\ rpc' = "failed"
                /\ UNCHANGED event_buf
    /\ UNCHANGED <<rrecords, rstream, rarrived, rclosed, read_state, content_len,
                   rtx>>
    /\ UNCHANGED rinfo
    /\ UNCHANGED notRemote

RemoteNext ==
    \/ ClientBytesArrive
    \/ ClientClose
    \/ ServerStart
    \/ Accept
    \/ ReadMagic
    \/ ReadHeader
    \/ SendEventBufOnClose
    \/ BlockOnData
    \/ ReadBody

\* The spans of the Insert and InsertMany messages sent so far, in order.
RECURSIVE Delivered(_)
Delivered(tx) == IF tx = <<>> THEN <<>> ELSE Head(tx).events \o Delivered(Tail(tx))

\* C6: for every timing of the arrival of the client's bytes, the spans the
\* worker has sent are always a prefix of the client's records, and once the
\* worker's loop has ended they are exactly the client's records, in order.
C6_DeliversExactlyTheRecords ==
    /\ Len(Delivered(rtx)) <= Len(rrecords)
    /\ Delivered(rtx) = SubSeq(rrecords, 1, Len(Delivered(rtx)))
    /\ rpc \in {"done", "failed"} => Delivered(rtx) = rrecords

\* The steps of the worker thread.
RemoteWorker ==
    \/ ServerStart
    \/ Accept
    \/ ReadMagic
    \/ ReadHeader
    \/ SendEventBufOnClose
    \/ BlockOnData
    \/ ReadBody

\* C17: once the client has closed the connection the worker comes to the
\* end of its loop, or has returned because accept() failed.
C17_WorkerTerminates == rclosed ~> (rpc \in {"done", "failed", "noaccept"})

\* C18: when RemoteClosedConnection is on the event channel after a close
\* that came with every byte of the client read, no decoded entry is still
\* in event_buf: all have been sent to the main thread.
C18_SpansBeforeClosed ==
    ("RemoteClosedConnection" \in Range(rinfo) /\ rpos = Len(rstream)) =>
        event_buf = <<>>

\* How many times an event is in the sequence of events.
Occurrences(s, e) == Cardinality({i \in 1..Len(s) : s[i] = e})

\* C19: ServerStarted is the first event and is sent once; ReceivedConnection
\* is sent at most once and only when accept() has succeeded;
\* RemoteClosedConnection is sent at most once and after ReceivedConnection;
\* no message is sent to the main thread before ReceivedConnection.
C19_EventOrder ==
    /\ rinfo = <<>> => (rpc \in {"off", "start"} /\ revents = {})
    /\ rinfo # <<>> => rinfo[1] = "ServerStarted"
    /\ \A e \in {"ServerStarted", "ReceivedConnection", "RemoteClosedConnection"} :
           Occurrences(rinfo, e) <= 1
    /\ "ReceivedConnection" \in Range(rinfo) => rpc \notin {"start", "accept", "noaccept"}
    /\ \A i \in 1..Len(rinfo) :
           rinfo[i] = "RemoteClosedConnection" =>
               \E j \in 1..(i - 1) : rinfo[j] = "ReceivedConnection"
    /\ rtx # <<>> => "ReceivedConnection" \in Range(rinfo)

\* The worker has ended after a close, with entries sent to the main thread.
C19_Witness ==
    /\ rpc = "done"
    /\ rinfo = <<"ServerStarted", "ReceivedConnection", "RemoteClosedConnection">>
    /\ rtx # <<>>

----------------------------------------------------------------------------
(***************************************************************************)
(* The IET and ET writers and the conversions between the two formats      *)
(***************************************************************************)

\* Largest number of spans captured after the root.
MaxConvertSpans == 2

\* Length of the long message a span can carry.
LongMessage == 240

\* The messages a captured span can carry: none, "h", or a long one.
Messages == {<<>>, <<<<104>>>>, <<[i \in 1..LongMessage |-> 120]>>}

\* The spans a producer can emit after the root: span i is named with the
\* letter i, hangs below the root or an earlier span and carries a message.
ConvertTraces ==
    UNION {{t \in [1..n -> (0..MaxConvertSpans) \X Messages] :
                \A i \in 1..n : t[i][1] < i}
           : n \in 0..MaxConvertSpans}

ConvertEntry(t, i) == TraceEntry(t[i][1], t[i][2], <<96 + i>>)

\* bincode encoding of a sequence of integers, without its length.
RECURSIVE VarintsEnc(_)
VarintsEnc(s) == IF s = <<>> THEN <<>> ELSE VarintEnc(Head(s)) \o VarintsEnc(Tail(s))

\* bincode encoding of the offset table, a Vec<u64>.
OffsetsEnc(offs) == VarintEnc(Len(offs)) \o VarintsEnc(offs)

\* bincode encoding of the PoolEntry values of a pool, without their number.
RECURSIVE PoolEntriesEnc(_)
PoolEntriesEnc(p) ==
    IF p = <<>> THEN <<>>
    ELSE VarintEnc(Len(Head(p))) \o VarintsEnc(Head(p)) \o PoolEntriesEnc(Tail(p))

\* bincode encoding of the child lists, a Vec<PoolEntry>.
PoolEnc(p) == VarintEnc(Len(p)) \o PoolEntriesEnc(p)

\* n more u32 values after the decoding step r: the first half of them, then
\* the rest.
RECURSIVE VarintsFrom(_, _, _)
VarintsFrom(b, r, n) ==
    Eval(<<r, n>>, LAMBDA a :
        IF a[1].err # "" \/ a[2] = 0 THEN a[1]
        ELSE IF a[2] = 1 THEN VarintDec(b, a[1].pos, 252)
        ELSE VarintsFrom(b, VarintsFrom(b, a[1], a[2] \div 2), a[2] - a[2] \div 2))

\* Decoding of a PoolEntry: the number of children, then the children.
PoolEntryDec(b, pos) ==
    Then(VarintDec(b, pos, 253), LAMBDA l : VarintsFrom(b, l, l.val))

\* n more PoolEntry values after the decoding step r.
RECURSIVE PoolEntriesFrom(_, _, _)
PoolEntriesFrom(b, r, n) ==
    Eval(<<r, n>>, LAMBDA a :
        IF a[1].err # "" \/ a[2] = 0 THEN a[1]
        ELSE IF a[2] = 1 THEN PoolEntryDec(b, a[1].pos)
        ELSE PoolEntriesFrom(b, PoolEntriesFrom(b, a[1], a[2] \div 2),
                             a[2] - a[2] \div 2))

\* Decoding of a Vec<PoolEntry>; only the position after it is used.
PoolDec(b, pos) ==
    Then(VarintDec(b, pos, 253), LAMBDA l : PoolEntriesFrom(b, l, l.val))

\* What gather_iet_table_data returns: err is "" for Ok, "invalid" for a
\* decode error and "panic" for a parent outside the pool.
IETTableData(err, offs, p) == [err |-> err, offsets |-> offs, child_lists |-> p]

\* The loop of gather_iet_table_data from stream position pos on, with the
\* offsets and the pool gathered so far. The pool already holds the new entry
\* when the parent's list is indexed.
RECURSIVE GatherLoop(_, _, _, _, _, _)
GatherLoop(inp, pos, extra_offset, length_prefixed, offs, p) ==
    Eval(<<IF length_prefixed THEN pos + 8 ELSE pos, offs, p>>, LAMBDA a :
        IF a[1] > Len(inp) /\ length_prefixed THEN IETTableData("", a[2], a[3])
        ELSE Eval(DecodeEntry(inp, a[1]), LAMBDA decoded :
            IF decoded.err = "eof" THEN IETTableData("", a[2], a[3])
            ELSE IF decoded.err # "" THEN IETTableData("invalid", a[2], a[3])
            ELSE IF Len(a[3]) > 0 /\ decoded.val.parent > Len(a[3])
            THEN IETTableData("panic", a[2], a[3])
            ELSE GatherLoop(inp, decoded.pos, extra_offset, length_prefixed,
                            Append(a[2], IF a[1] >= extra_offset
                                         THEN a[1] - extra_offset ELSE 0),
                            IF Len(a[3]) > 0
                            THEN PushChild(Append(a[3], NewPoolEntry),
                                           decoded.val.parent, Len(a[3]))
                            ELSE Append(a[3], NewPoolEntry))))

gather_iet_table_data(inp, skip_magic, length_prefixed) ==
    GatherLoop(inp, IF skip_magic THEN 10 ELSE 0, IF skip_magic THEN 10 ELSE 0,
               length_prefixed, <<>>, <<>>)

\* The outcome of a conversion: whether it returned Ok, and the bytes written
\* to the output.
Converted(ok, bytes) == [ok |-> ok, bytes |-> bytes]

\* iet_to_et_with_table: the ET magic, the offset table, the child lists,
\* then the input's records.
iet_to_et_with_table(table, inp, skip_magic) ==
    Converted(TRUE, entrace_magic_for(1, FormatET) \o OffsetsEnc(table.offsets)
                    \o PoolEnc(table.child_lists)
                    \o Rest(inp, IF skip_magic THEN 10 ELSE 0))

\* iet_to_et: gather the tables, then iet_to_et_with_table.
iet_to_et(inp, skip_magic, length_prefixed) ==
    Eval(gather_iet_table_data(inp, skip_magic, length_prefixed), LAMBDA table :
        IF table.err # "" THEN Converted(FALSE, <<>>)
        ELSE iet_to_et_with_table(table, inp, skip_magic))

\* How far et_to_iet seeks forward over the offset table whose decoded
\* length is offset_table_len: inp.seek_relative(offset_table_len).
SeekOverOffsets(inp, pos, offset_table_len) == offset_table_len

\* et_to_iet: the IET magic, then what follows the offset table and the
\* child lists in the input.
et_to_iet(inp, skip_magic) ==
    Eval(VarintDec(inp, IF skip_magic THEN 10 ELSE 0, 253), LAMBDA offset_table_len :
        IF offset_table_len.err # ""
        THEN Converted(FALSE, entrace_magic_for(1, FormatIET))
        ELSE Eval(PoolDec(inp, offset_table_len.pos
                               + SeekOverOffsets(inp, offset_table_len.pos,
                                                 offset_table_len.val)),
                  LAMBDA pool_ :
                    IF pool_.err # ""
                    THEN Converted(FALSE, entrace_magic_for(1, FormatIET))
                    ELSE Converted(TRUE, entrace_magic_for(1, FormatIET)
                                         \o Rest(inp, pool_.pos))))

ConvertIdle ==
    /\ cmode = "off" /\ ctrace = <<>> /\ cnext = 0 /\ cfile = <<>>
    /\ offsets = <<>> /\ et_child_lists = <<>> /\ cur_offset = 0
    /\ cstage = "off" /\ first = <<>> /\ mid = <<>> /\ final = <<>>

\* The writer thread of IETStorage (non length-prefixed) or of ETStorage
\* after it wrote the magic and the root record; the producer's spans are
\* still to come.
ConvertInit ==
    /\ cmode \in {"iet", "et"}
    /\ ctrace \in ConvertTraces
    /\ cnext = 0
    /\ cfile = entrace_magic_for(1, FormatIET) \o EncodeEntry(TraceEntryRoot)
    /\ offsets = IF cmode = "et" THEN <<0>> ELSE <<>>
    /\ et_child_lists = IF cmode = "et" THEN <<NewPoolEntry>> ELSE <<>>
    /\ cur_offset = IF cmode = "et" THEN Len(EncodeEntry(TraceEntryRoot)) ELSE 0
    /\ cstage = "writing"
    /\ first = <<>> /\ mid = <<>> /\ final = <<>>

\* IETStorage's writer receives NewSpan: write_message without a length.
IETWriteSpan ==
    /\ cmode = "iet" /\ cstage = "writing" /\ cnext < Len(ctrace)
    /\ cfile' = cfile \o EncodeEntry(ConvertEntry(ctrace, cnext + 1))
    /\ cnext' = cnext + 1
    /\ UNCHANGED <<cmode, ctrace, offsets, et_child_lists, cur_offset, cstage,
                   first, mid, final>>
    /\ UNCHANGED notConvert

\* IETStorage::finish: the writer returns its buffer.
IETFinish ==
    /\ cmode = "iet" /\ cstage = "writing" /\ cnext = Len(ctrace)
    /\ first' = cfile
    /\ cstage' = "finished"
    /\ UNCHANGED <<cmode, ctrace, cnext, cfile, offsets, et_child_lists,
                   cur_offset, mid, final>>
    /\ UNCHANGED notConvert

\* ETStorage's writer receives Message::Entry: it records the offset and the
\* child link, then writes the record.
ETWriteEntry ==
    /\ cmode = "et" /\ cstage = "writing" /\ cnext < Len(ctrace)
    /\ \E entry \in {ConvertEntry(ctrace, cnext + 1)} :
         \E encoded \in {EncodeEntry(entry)} :
           /\ offsets' = Append(offsets, cur_offset)
           /\ et_child_lists' =
                 Append(PushChild(et_child_lists, entry.parent, Len(et_child_lists)),
                        NewPoolEntry)
           /\ cfile' = cfile \o encoded
           /\ cur_offset' = cur_offset + Len(encoded)
    /\ cnext' = cnext + 1
    /\ UNCHANGED <<cmode, ctrace, cstage, first, mid, final>>
    /\ UNCHANGED notConvert

\* ETStorage's writer receives Message::Shutdown: iet_to_et_with_table with
\* the tables it kept.
ETShutdown ==
    /\ cmode = "et" /\ cstage = "writing" /\ cnext = Len(ctrace)
    /\ first' = iet_to_et_with_table([offsets |-> offsets,
                                      child_lists |-> et_child_lists],
                                     cfile, TRUE).bytes
    /\ cstage' = "finished"
    /\ UNCHANGED <<cmode, ctrace, cnext, cfile, offsets, et_child_lists,
                   cur_offset, mid, final>>
    /\ UNCHANGED notConvert

\* The stage a conversion with outcome r leads to: the caller unwraps it.
StageAfter(r, stage) == IF r.ok THEN stage ELSE "failed"

\* iet_to_et(.., true, false) on the writer's IET, or on the IET that
\* et_to_iet made of the writer's ET.
ConvertIetToEt ==
    /\ \/ /\ cmode = "iet" /\ cstage = "finished"
          /\ \E r \in {iet_to_et(first, TRUE, FALSE)} :
                mid' = r.bytes /\ cstage' = StageAfter(r, "converted")
          /\ UNCHANGED final
       \/ /\ cmode = "et" /\ cstage = "converted"
          /\ \E r \in {iet_to_et(mid, TRUE, FALSE)} :
                final' = r.bytes /\ cstage' = StageAfter(r, "round_trip")
          /\ UNCHANGED mid
    /\ UNCHANGED <<cmode, ctrace, cnext, cfile, offsets, et_child_lists,
                   cur_offset, first>>
    /\ UNCHANGED notConvert

\* et_to_iet(.., true) on the writer's ET, or on the ET that iet_to_et made
\* of the writer's IET.
ConvertEtToIet ==
    /\ \/ /\ cmode = "et" /\ cstage = "finished"
          /\ \E r \in {et_to_iet(first, TRUE)} :
                mid' = r.bytes /\ cstage' = StageAfter(r, "converted")
          /\ UNCHANGED final
       \/ /\ cmode = "iet" /\ cstage = "converted"
          /\ \E r \in {et_to_iet(mid, TRUE)} :
                final' = r.bytes /\ cstage' = StageAfter(r, "round_trip")
          /\ UNCHANGED mid
    /\ UNCHANGED <<cmode, ctrace, cnext, cfile, offsets, et_child_lists,
                   cur_offset, first>>
    /\ UNCHANGED notConvert

ConvertNext ==
    \/ IETWriteSpan
    \/ IETFinish
    \/ ETWriteEntry
    \/ ETShutdown
    \/ ConvertIetToEt
    \/ ConvertEtToIet

\* C7: for every trace written by the non-length-prefixed IET writer,
\* iet_to_et followed by et_to_iet succeeds and yields the writer's bytes.
C7_IetEtIetIdentity ==
    (cmode = "iet" /\ cstage \in {"round_trip", "failed"}) =>
        (cstage = "round_trip" /\ final = first)

\* C8: for every trace captured by the ET writer, et_to_iet followed by
\* iet_to_et succeeds and yields the ET made at shutdown, and the offsets and
\* child lists the writer kept are those gather_iet_table_data finds in the
\* writer's IET bytes.
C8_EtIetEtIdentity ==
    /\ (cmode = "et" /\ cstage \in {"round_trip", "failed"}) =>
          (cstage = "round_trip" /\ final = first)
    /\ (cmode = "et" /\ cstage # "writing") =>
          gather_iet_table_data(cfile, TRUE, FALSE)
            = IETTableData("", offsets, et_child_lists)

----------------------------------------------------------------------------
(* The filter-set evaluator (entrace_query/src/filtersets.rs)               *)

MaxId == 1
MaxPool == 3
MAX_DNF_CLAUSES == 128
DNFS_IN_AND_MERGE_MAX_CLAUSES == MAX_DNF_CLAUSES \div 2

\* The ids of the spans of the log.
Ids == 0..MaxId

\* Roaring::full(): every id a bitmap can hold, the ids past the log included.
Full == 0..(MaxId + 1)

\* usize::MAX, post_order's mark of an unknown parent.
UsizeMax == 0 - 1

Filterset(k, bm, clauses, items, src) ==
    [k |-> k, bm |-> bm, clauses |-> clauses, items |-> items, src |-> src]

Dead == Filterset("Dead", {}, <<>>, <<>>, 0)

Primitive(bm) == Filterset("Primitive", bm, <<>>, <<>>, 0)

BlackBox(src) == Filterset("BlackBox", {}, <<>>, <<>>, src)

RelDnf(clauses, src) == Filterset("RelDnf", {}, clauses, <<>>, src)

And(items) == Filterset("And", {}, <<>>, items, 0)

Or(items) == Filterset("Or", {}, <<>>, items, 0)

Not(src) == Filterset("Not", {}, <<>>, <<>>, src)

Predicate(attr, rel, constant) == [attr |-> attr, rel |-> rel, constant |-> constant]

RECURSIVE Flatten(_)
Flatten(s) ==
    IF s = <<>> THEN <<>>
    ELSE IF Len(s) = 1 THEN s[1]
    ELSE Flatten(SubSeq(s, 1, Len(s) \div 2)) \o Flatten(SubSeq(s, Len(s) \div 2 + 1, Len(s)))

\* self.pool[id]: ids count from 0.
At(p, id) == p[id + 1]

InPool(p, id) == id \in 0..(Len(p) - 1)

SetAt(p, id, f) == [p EXCEPT ![id + 1] = f]

fs_children(f) ==
    IF f.k \in {"Dead", "Primitive"} THEN <<>>
    ELSE IF f.k \in {"And", "Or"} THEN f.items
    ELSE <<f.src>>

is_and(p, id) == At(p, id).k = "And"

is_or(p, id) == At(p, id).k = "Or"

is_dnf(p, id) == At(p, id).k = "RelDnf"

\* new_dnf: the predicates of the clauses are pushed in order, the clauses
\* keep their ids.
new_dnf(preds, clauses, src) ==
    LET before(i) == SeqSum([c \in 1..(i - 1) |-> Len(clauses[c])])
    IN [predicates |-> preds \o Flatten(clauses),
        f |-> RelDnf([i \in 1..Len(clauses) |->
                         [j \in 1..Len(clauses[i]) |-> Len(preds) + before(i) + j - 1]],
                     src)]

RECURSIVE SeqProduct(_)
SeqProduct(s) == IF s = <<>> THEN 1 ELSE Head(s) * SeqProduct(Tail(s))

len_of_merged_dnf(p, dnfs) ==
    LET d == SelectSeq(dnfs, LAMBDA x : is_dnf(p, x))
    IN SeqProduct([i \in 1..Len(d) |-> Len(At(p, d[i]).clauses)])

\* items...filter_map(RelDnf).into_group_map(): the RelDnf items by their source,
\* each group in the order of the items.
dnf_by_source(p, items) ==
    LET d == SelectSeq(items, LAMBDA x : is_dnf(p, x))
    IN [s \in {At(p, d[i]).src : i \in 1..Len(d)} |->
           SelectSeq(d, LAMBDA x : At(p, x).src = s)]

RewriteAction(a, id, inner, y, q, groups) ==
    [a |-> a, id |-> id, inner |-> inner, y |-> y, q |-> q, groups |-> groups]

RewriteNone == RewriteAction("None", 0, <<>>, 0, 0, <<>>)

decide_rewrite_action(p, id) ==
    LET f == At(p, id)
        ands == SelectSeq(f.items, LAMBDA x : is_and(p, x))
        ors == SelectSeq(f.items, LAMBDA x : is_or(p, x))
        g == dnf_by_source(p, f.items)
    IN CASE f.k = "And" ->
              IF Len(f.items) = 1
              THEN RewriteAction("EliminateSingleAnd", id, <<>>, 0, 0, <<>>)
              ELSE IF ands # <<>>
              THEN RewriteAction("CompressAnd", id, ands, 0, 0, <<>>)
              ELSE IF \E s \in DOMAIN g :
                         /\ Len(g[s]) > 1
                         /\ \E t \in DOMAIN g :
                               len_of_merged_dnf(p, g[t]) < DNFS_IN_AND_MERGE_MAX_CLAUSES
              THEN RewriteAction("MergeDnfsInAnd", id, <<>>, 0, 0, g)
              ELSE RewriteNone
         [] f.k = "Or" ->
              IF Len(f.items) = 1
              THEN RewriteAction("EliminateSingleOr", id, <<>>, 0, 0, <<>>)
              ELSE IF ors # <<>>
              THEN RewriteAction("CompressOr", id, ors, 0, 0, <<>>)
              ELSE IF \E s \in DOMAIN g : Len(g[s]) > 1
              THEN RewriteAction("MergeDnfsInOr", id, <<>>, 0, 0, g)
              ELSE RewriteNone
         [] f.k = "Not" ->
              IF At(p, f.src).k = "Not"
              THEN RewriteAction("EliminateNotNot", id, <<>>, f.src, At(p, f.src).src, <<>>)
              ELSE RewriteNone
         [] f.k = "RelDnf" ->
              IF /\ At(p, f.src).k = "RelDnf"
                 /\ Len(f.clauses) * Len(At(p, f.src).clauses) < MAX_DNF_CLAUSES
              THEN RewriteAction("DnfDnf", id, <<>>, f.src, At(p, f.src).src, <<>>)
              ELSE RewriteNone
         [] OTHER -> RewriteNone

\* What do_rewrite_action leaves: a panic, or the pool.
Rewritten(panic, p) == [panic |-> panic, pool |-> p]

\* items.extend(set): a HashSet yields its elements in any order.
SetToVecs(S) ==
    {s \in [1..Cardinality(S) -> S] :
        \A i, j \in 1..Cardinality(S) : i # j => s[i] # s[j]}

\* The ids of a set in ascending order.
Ascending(S) ==
    CHOOSE s \in [1..Cardinality(S) -> S] :
        \A i, j \in 1..Cardinality(S) : i < j => s[i] < s[j]

RECURSIVE CompressLoop(_, _, _, _, _)
\* CompressAnd / CompressOr, the loop over the inner nodes: each is taken out
\* of the set, and the items of the node at items[ptr] are put in.
CompressLoop(p, kind, items, inner, set) ==
    IF inner = <<>> THEN [panic |-> FALSE, set |-> set]
    ELSE IF Head(inner) >= Len(items) THEN [panic |-> TRUE, set |-> set]
    ELSE IF At(p, items[Head(inner) + 1]).k # kind THEN [panic |-> TRUE, set |-> set]
    ELSE CompressLoop(p, kind, items, Tail(inner),
                      (set \ {Head(inner)})
                          \cup Range(At(p, items[Head(inner) + 1]).items))

Compress(p, kind, id, inner) ==
    LET r == CompressLoop(p, kind, At(p, id).items, inner, Range(At(p, id).items))
    IN IF r.panic THEN {Rewritten(TRUE, p)}
       ELSE {Rewritten(FALSE,
                 [i \in 1..Len(p) |->
                     IF (i - 1) \in Range(inner) THEN Dead
                     ELSE IF i - 1 = id THEN [p[i] EXCEPT !.items = v]
                     ELSE p[i]])
             : v \in SetToVecs(r.set)}

\* EliminateSingleAnd / EliminateSingleOr: the node is replaced by Dead and
\* swapped with its only item.
EliminateSingle(p, id) ==
    LET src == At(p, id).items[1]
        p1 == SetAt(p, id, Dead)
    IN IF ~InPool(p, src) THEN {Rewritten(TRUE, p)}
       ELSE {Rewritten(FALSE, [p1 EXCEPT ![id + 1] = p1[src + 1],
                                         ![src + 1] = p1[id + 1]])}

EliminateNotNot(p, not1p, not2p, innerp) ==
    {Rewritten(FALSE,
         SetAt(SetAt(SetAt(p, innerp, Dead), not1p, At(p, innerp)), not2p, Dead))}

\* c1.iter().cartesian_product(c2), each pair chained: c1 is the outer loop.
Cartesian(c1, c2) ==
    [n \in 1..(Len(c1) * Len(c2)) |->
        c1[((n - 1) \div Len(c2)) + 1] \o c2[((n - 1) % Len(c2)) + 1]]

RECURSIVE MultiCartesian(_)
\* multi_cartesian_product() with each combination flattened.
MultiCartesian(lists) ==
    IF lists = <<>> THEN << <<>> >>
    ELSE Eval(<<MultiCartesian(SubSeq(lists, 1, Len(lists) - 1)), lists[Len(lists)]>>,
              LAMBDA t : Cartesian(t[1], t[2]))

\* DnfDnf without dead_and_take_dnf: the inner DNF stays where it was.
DnfDnfKeepInner(p, dnf1, dnf2, src2) ==
    IF At(p, dnf1).k # "RelDnf" THEN {Rewritten(TRUE, p)}
    ELSE {Rewritten(FALSE,
              SetAt(p, dnf1, RelDnf(Cartesian(At(p, dnf1).clauses, At(p, dnf2).clauses),
                                    src2)))}

DnfDnf(p, dnf1, dnf2, src2) ==
    LET c2 == At(p, dnf2).clauses
        p1 == SetAt(p, dnf2, Dead)
    IN IF At(p1, dnf1).k # "RelDnf" THEN {Rewritten(TRUE, p)}
       ELSE {Rewritten(FALSE,
                 SetAt(p1, dnf1, RelDnf(Cartesian(At(p1, dnf1).clauses, c2), src2)))}

Merged(panic, p, firstc, set) ==
    [panic |-> panic, pool |-> p, firstc |-> firstc, set |-> set]

RECURSIVE MergeOrRest(_, _, _, _)
\* MergeDnfsInOr, the loop over dnfs.iter().skip(1).
MergeOrRest(p, rest, firstc, set) ==
    IF rest = <<>> THEN Merged(FALSE, p, firstc, set)
    ELSE IF At(p, Head(rest)).k # "RelDnf" THEN Merged(TRUE, p, firstc, set)
    ELSE MergeOrRest(SetAt(p, Head(rest), Dead), Tail(rest),
                     firstc \o At(p, Head(rest)).clauses, set \ {Head(rest)})

\* MergeDnfsInOr keeping the clauses of the first DNF of a group only.
MergeOrGroupFirstOnly(p, source, dnfs, set) ==
    IF Len(dnfs) < 2 THEN Merged(FALSE, p, <<>>, set)
    ELSE IF At(p, dnfs[1]).k # "RelDnf" THEN Merged(TRUE, p, <<>>, set)
    ELSE Eval(MergeOrRest(SetAt(p, dnfs[1], Dead), Tail(dnfs),
                          At(p, dnfs[1]).clauses, set),
              LAMBDA r : IF r.panic THEN r
                         ELSE Merged(FALSE,
                                     SetAt(r.pool, dnfs[1],
                                           RelDnf(At(p, dnfs[1]).clauses, source)),
                                     <<>>, r.set))

MergeOrGroup(p, source, dnfs, set) ==
    IF Len(dnfs) < 2 THEN Merged(FALSE, p, <<>>, set)
    ELSE IF At(p, dnfs[1]).k # "RelDnf" THEN Merged(TRUE, p, <<>>, set)
    ELSE Eval(MergeOrRest(SetAt(p, dnfs[1], Dead), Tail(dnfs),
                          At(p, dnfs[1]).clauses, set),
              LAMBDA r : IF r.panic THEN r
                         ELSE Merged(FALSE,
                                     SetAt(r.pool, dnfs[1], RelDnf(r.firstc, source)),
                                     <<>>, r.set))

RECURSIVE MergeAndRest(_, _, _)
\* MergeDnfsInAnd, the loop over dnfs.iter().skip(1).
MergeAndRest(p, rest, set) ==
    IF rest = <<>> THEN Merged(FALSE, p, <<>>, set)
    ELSE IF At(p, Head(rest)).k # "RelDnf" THEN Merged(TRUE, p, <<>>, set)
    ELSE MergeAndRest(SetAt(p, Head(rest), Dead), Tail(rest), set \ {Head(rest)})

MergeAndGroup(p, dnfs, set) ==
    IF Len(dnfs) < 2 \/ len_of_merged_dnf(p, dnfs) > DNFS_IN_AND_MERGE_MAX_CLAUSES
    THEN Merged(FALSE, p, <<>>, set)
    ELSE IF At(p, dnfs[1]).k # "RelDnf" THEN Merged(TRUE, p, <<>>, set)
    ELSE Eval(SelectSeq(dnfs, LAMBDA x : is_dnf(p, x)), LAMBDA d :
         Eval([i \in 1..Len(d) |-> At(p, d[i]).clauses], LAMBDA lists :
         Eval(MultiCartesian(lists), LAMBDA new_clause_list :
         Eval(SetAt(p, dnfs[1], [At(p, dnfs[1]) EXCEPT !.clauses = new_clause_list]),
              LAMBDA p1 : MergeAndRest(p1, Tail(dnfs), set)))))

RECURSIVE MergeGroups(_, _, _, _, _)
\* The loop over dnfs_by_source. The groups share no node, so the order in
\* which the HashMap yields them does not show; they are taken by source.
MergeGroups(kind, p, groups, sources, set) ==
    IF sources = <<>> THEN Merged(FALSE, p, <<>>, set)
    ELSE Eval(IF kind = "Or"
              THEN MergeOrGroup(p, Head(sources), groups[Head(sources)], set)
              ELSE MergeAndGroup(p, groups[Head(sources)], set),
              LAMBDA r : IF r.panic THEN r
                         ELSE MergeGroups(kind, r.pool, groups, Tail(sources), r.set))

\* MergeDnfsInOr / MergeDnfsInAnd.
MergeDnfs(kind, p, id, groups) ==
    Eval(MergeGroups(kind, SetAt(p, id, Dead), groups, Ascending(DOMAIN groups),
                     Range(At(p, id).items)),
         LAMBDA r :
             IF r.panic THEN {Rewritten(TRUE, p)}
             ELSE {Rewritten(FALSE, SetAt(r.pool, id, IF kind = "Or" THEN Or(v) ELSE And(v)))
                   : v \in SetToVecs(r.set)})

do_rewrite_action(p, action) ==
    CASE action.a = "None" -> {Rewritten(FALSE, p)}
      [] action.a = "CompressAnd" -> Compress(p, "And", action.id, action.inner)
      [] action.a = "CompressOr" -> Compress(p, "Or", action.id, action.inner)
      [] action.a \in {"EliminateSingleOr", "EliminateSingleAnd"} ->
            EliminateSingle(p, action.id)
      [] action.a = "EliminateNotNot" -> EliminateNotNot(p, action.id, action.y, action.q)
      [] action.a = "DnfDnf" -> DnfDnf(p, action.id, action.y, action.q)
      [] action.a = "MergeDnfsInOr" -> MergeDnfs("Or", p, action.id, action.groups)
      [] action.a = "MergeDnfsInAnd" -> MergeDnfs("And", p, action.id, action.groups)

\* The mutation of post_order for C14: the root alone is visited.
PostOrderRootOnly(p, root) ==
    [order |-> <<root>>, parent_of |-> [i \in 1..Len(p) |-> UsizeMax]]

RECURSIVE PostOrderLoop(_, _, _, _)
\* post_order's while loop.
PostOrderLoop(p, stack1, stack2, par) ==
    IF stack1 = <<>> THEN [order |-> [i \in 1..Len(stack2) |-> stack2[Len(stack2) + 1 - i]],
                           parent_of |-> par]
    ELSE LET v == stack1[Len(stack1)]
             ch == fs_children(At(p, v))
         IN Eval(<<SubSeq(stack1, 1, Len(stack1) - 1) \o ch,
                   Append(stack2, v),
                   [i \in 1..Len(par) |-> IF (i - 1) \in Range(ch) THEN v ELSE par[i]]>>,
                 LAMBDA t : PostOrderLoop(p, t[1], t[2], t[3]))

post_order(p, root) == PostOrderLoop(p, <<root>>, <<>>, [i \in 1..Len(p) |-> UsizeMax])

Cmp(a, b) == IF a < b THEN "Less" ELSE IF a = b THEN "Equal" ELSE "Greater"

\* The log the queries run on: the span with id i has one attribute, "a",
\* an I64 of value i.
LogAttrs(id) == <<[name |-> "a", value |-> id]>>

\* An EnValue or EnValueRef. Strings, byte strings, booleans and floats are
\* numbered in their order, so that v is the place of the value in its type.
EnValueOf(type, v) == [type |-> type, v |-> v]

\* x as u64 against a u64 a, x as i64 against an i64 a: the values of the
\* model are far from the ends of their types, so the cast changes a
\* negative x only, which as u64 is above every a of the model.
CmpAsU64(x, a) == IF x < 0 THEN "Greater" ELSE Cmp(x, a)

\* values_match: span_value R value.
values_match(comparator, span_value, value) ==
    CASE value.type \in {"String", "Bool", "Float"} ->
            span_value.type = value.type /\ Cmp(span_value.v, value.v) = comparator
      [] value.type = "U64" ->
            /\ span_value.type \in {"U64", "I64", "U128", "I128"}
            /\ CmpAsU64(span_value.v, value.v) = comparator
      [] value.type = "I64" ->
            /\ span_value.type \in {"U64", "I64", "U128", "I128"}
            /\ Cmp(span_value.v, value.v) = comparator
      [] OTHER -> FALSE

\* span_matches_filter for a target that is an attribute.
span_matches_filter(id, target, relation, en_value) ==
    LET found == SelectSeq(LogAttrs(id), LAMBDA at : at.name = target)
    IN IF found = <<>> THEN FALSE
       ELSE values_match(relation, EnValueOf("I64", found[1].value),
                         EnValueOf("I64", en_value))

\* MultiOps::union / MultiOps::intersection over a list of bitmaps.
MultiUnion(s) == UNION Range(s)

MultiIntersection(s) ==
    IF s = <<>> THEN {} ELSE {x \in s[1] : \A i \in 1..Len(s) : x \in s[i]}

Matched(panic, bm) == [panic |-> panic, bm |-> bm]

\* Matcher::subset_matching_dnf as the trait gives it, over YesManMatcher's
\* subset_matching, which returns its input.
YesManMatcher_subset_matching_dnf(preds, clauses, input) ==
    Matched(FALSE,
            MultiUnion([i \in 1..Len(clauses) |->
                MultiIntersection([j \in 1..Len(clauses[i]) |-> input])]))

\* EnMatcher's subset_matching_dnf: an id matches when all predicates of some
\* clause hold for it. The lookup of an id that is not in the log panics.
EnMatcher_subset_matching_dnf(preds, clauses, input) ==
    IF (input \ Ids) # {} /\ clauses # <<>> /\ clauses[1] # <<>>
    THEN Matched(TRUE, {})
    ELSE Matched(FALSE,
                 {id \in input :
                     \E i \in 1..Len(clauses) :
                         \A j \in 1..Len(clauses[i]) :
                             span_matches_filter(id, At(preds, clauses[i][j]).attr,
                                                 At(preds, clauses[i][j]).rel,
                                                 At(preds, clauses[i][j]).constant)})

\* matcher.subset_matching_dnf of the Matcher handed to materialize.
subset_matching_dnf(m, preds, clauses, input) ==
    IF m = "YesMan" THEN YesManMatcher_subset_matching_dnf(preds, clauses, input)
    ELSE EnMatcher_subset_matching_dnf(preds, clauses, input)

\* self.results.insert(node, v)
Insert(res, node, v) ==
    [x \in (DOMAIN res) \cup {node} |-> IF x = node THEN v ELSE res[x]]

\* The mutation of Complement for C11: the operands the other way round.
ComplementSwapped(source_result) == source_result \ Full

\* materialize's Not arm: Roaring::full() - source_result.
Complement(source_result) == Full \ source_result

\* materialize's match on a ready node: what is inserted for it.
NodeResult(p, preds, m, res, node) ==
    LET f == At(p, node)
    IN CASE f.k = "Dead" -> Matched(FALSE, {})
         [] f.k = "Primitive" -> Matched(FALSE, f.bm)
         [] f.k = "BlackBox" -> Matched(FALSE, res[f.src])
         [] f.k = "And" ->
               Matched(FALSE, MultiUnion([i \in 1..Len(f.items) |-> res[f.items[i]]]))
         [] f.k = "Or" ->
               Matched(FALSE, MultiUnion([i \in 1..Len(f.items) |-> res[f.items[i]]]))
         [] f.k = "Not" -> Matched(FALSE, Complement(res[f.src]))
         [] f.k = "RelDnf" -> subset_matching_dnf(m, preds, f.clauses, res[f.src])

Materialized(panic, res) == [panic |-> panic, results |-> res]

RECURSIVE MaterializeLoop(_, _, _, _, _)
\* materialize's while loop over the stack of (node, ready).
MaterializeLoop(p, preds, m, stack, res) ==
    IF stack = <<>> THEN Materialized(FALSE, res)
    ELSE LET node == stack[Len(stack)][1]
             ready == stack[Len(stack)][2]
             rest == SubSeq(stack, 1, Len(stack) - 1)
             ch == fs_children(At(p, node))
         IN IF ~InPool(p, node) THEN Materialized(TRUE, res)
            ELSE IF ~ready
            THEN Eval(rest \o <<<<node, TRUE>>>> \o [i \in 1..Len(ch) |-> <<ch[i], FALSE>>],
                      LAMBDA s : MaterializeLoop(p, preds, m, s, res))
            ELSE IF ~(Range(ch) \subseteq DOMAIN res) THEN Materialized(TRUE, res)
            ELSE Eval(NodeResult(p, preds, m, res, node),
                      LAMBDA v : IF v.panic THEN Materialized(TRUE, res)
                                 ELSE Eval(Insert(res, node, v.bm),
                                           LAMBDA r : MaterializeLoop(p, preds, m, rest, r)))

\* materialize with the root pushed as ready.
materialize_root_ready(p, preds, m, res, id) ==
    MaterializeLoop(p, preds, m, <<<<id, TRUE>>>>, res)

materialize(p, preds, m, res, id) == MaterializeLoop(p, preds, m, <<<<id, FALSE>>>>, res)

----------------------------------------------------------------------------
(* The Lua filterset API (entrace_query/src/lua_api.rs)                     *)

\* An item of a filterset table. src is <<>> when the item has no src.
LuaItem(type, value, clauses, src, srcs) ==
    [type |-> type, value |-> value, clauses |-> clauses, src |-> src, srcs |-> srcs]

LuaFilterset(root, items) == [root |-> root, items |-> items]

en_filterset_from_list(t) ==
    LuaFilterset(0, <<LuaItem("prim_list", t, <<>>, <<>>, <<>>)>>)

en_filter(filter, src) ==
    LuaFilterset(Len(src.items),
                 Append(src.items,
                        LuaItem("rel_dnf", <<>>, << <<filter>> >>, <<src.root>>, <<>>)))

increment_item_source(amount, item) ==
    [item EXCEPT !.src = [i \in 1..Len(@) |-> @[i] + amount],
                 !.srcs = [i \in 1..Len(@) |-> @[i] + amount]]

concat_items_lists(filters) ==
    LET additional_len_before(i) == SeqSum([k \in 1..(i - 1) |-> Len(filters[k].items)])
    IN [items |-> Flatten([i \in 1..Len(filters) |->
                     [j \in 1..Len(filters[i].items) |->
                         increment_item_source(additional_len_before(i),
                                               filters[i].items[j])]]),
        srcs |-> [i \in 1..Len(filters) |->
                     Len(filters[i].items) - 1 + additional_len_before(i)]]

en_filterset_union(filters) ==
    LET c == concat_items_lists(filters)
    IN LuaFilterset(Len(c.items),
                    Append(c.items, LuaItem("union", <<>>, <<>>, <<>>, c.srcs)))

en_filterset_intersect(filters) ==
    LET c == concat_items_lists(filters)
    IN LuaFilterset(Len(c.items),
                    Append(c.items, LuaItem("intersect", <<>>, <<>>, <<>>, c.srcs)))

\* parse_predicate, for the relations "GT", "LT" and "EQ" and an integer value.
parse_predicate(t) ==
    Predicate(t.target,
              CASE t.relation = "GT" -> "Greater"
                [] t.relation = "LT" -> "Less"
                [] t.relation = "EQ" -> "Equal",
              t.value)

ItemFilterset(err, f, preds) == [err |-> err, f |-> f, predicates |-> preds]

\* item_to_filterset, add_predicate being evaluator.new_predicate. A src that
\* is missing or negative does not convert to usize.
item_to_filterset(item, preds) ==
    CASE item.type = "prim_list" -> ItemFilterset(FALSE, Primitive(Range(item.value)), preds)
      [] item.type = "rel_dnf" ->
            IF item.src = <<>> \/ item.src[1] < 0 THEN ItemFilterset(TRUE, Dead, preds)
            ELSE LET d == new_dnf(preds,
                                  [i \in 1..Len(item.clauses) |->
                                      [j \in 1..Len(item.clauses[i]) |->
                                          parse_predicate(item.clauses[i][j])]],
                                  item.src[1])
                 IN ItemFilterset(FALSE, d.f, d.predicates)
      [] item.type = "intersect" -> ItemFilterset(FALSE, And(item.srcs), preds)
      [] item.type = "union" -> ItemFilterset(FALSE, And(item.srcs), preds)
      [] item.type = "invert" ->
            IF item.src = <<>> \/ item.src[1] < 0 THEN ItemFilterset(TRUE, Dead, preds)
            ELSE ItemFilterset(FALSE, Not(item.src[1]), preds)
      [] OTHER -> ItemFilterset(TRUE, Dead, preds)

Loaded(err, p, preds) == [err |-> err, pool |-> p, predicates |-> preds]

RECURSIVE LoadItems(_, _, _, _)
\* en_filterset_materialize's loop over the items: each is converted and
\* pushed with new_filterset.
LoadItems(items, i, p, preds) ==
    IF i > Len(items) THEN Loaded(FALSE, p, preds)
    ELSE Eval(item_to_filterset(items[i], preds),
              LAMBDA c : IF c.err THEN Loaded(TRUE, p, preds)
                         ELSE LoadItems(items, i + 1, Append(p, c.f), c.predicates))

----------------------------------------------------------------------------
(* The evaluator and the Lua API as state machines                          *)

NoFilterset == LuaFilterset(0, <<>>)

FilterIdle ==
    /\ ev_pool = <<>> /\ predicates = <<>> /\ results = <<>>
    /\ nroot = 0 /\ worklist = <<>> /\ parent_of = <<>> /\ any_action = FALSE
    /\ matcher = "YesMan" /\ epc = "off"
    /\ lua_filters = <<>> /\ lua_op = "none" /\ lua_fs = NoFilterset /\ lua_out = {}

\* Evaluator::new(), used through its Rust API with the YesManMatcher.
EvaluatorInit ==
    /\ ev_pool = <<>> /\ predicates = <<>> /\ results = <<>>
    /\ nroot = 0 /\ worklist = <<>> /\ parent_of = <<>> /\ any_action = FALSE
    /\ matcher = "YesMan" /\ epc = "building"
    /\ lua_filters = <<>> /\ lua_op = "none" /\ lua_fs = NoFilterset /\ lua_out = {}

\* The nodes some node of the pool refers to.
Owned(p) == UNION {Range(fs_children(p[i])) : i \in 1..Len(p)}

\* What a new node may refer to: whoever has the index of a node owns it,
\* Primitives excepted.
Usable(p) == {id \in 0..(Len(p) - 1) : At(p, id).k = "Primitive" \/ id \notin Owned(p)}

ItemLists(p) ==
    {<<a>> : a \in Usable(p)}
        \cup {s \in Usable(p) \X Usable(p) : s[1] # s[2] \/ At(p, s[1]).k = "Primitive"}

NewFiltersets(p) ==
    {Primitive(S) : S \in SUBSET Ids}
        \cup {BlackBox(s) : s \in Usable(p)}
        \cup {Not(s) : s \in Usable(p)}
        \cup {And(l) : l \in ItemLists(p)}
        \cup {Or(l) : l \in ItemLists(p)}

\* The clause lists handed to new_dnf.
DnfChoices ==
    LET P(c) == Predicate("a", "Equal", c)
    IN { << <<P(0)>> >>, << <<P(0), P(MaxId)>> >>, << <<P(0)>>, <<P(MaxId)>> >> }

new_filterset ==
    /\ epc = "building" /\ Len(ev_pool) < MaxPool
    /\ \E f \in NewFiltersets(ev_pool) : ev_pool' = Append(ev_pool, f)
    /\ UNCHANGED <<predicates, results, nroot, worklist, parent_of, any_action, matcher,
                   epc, lua_filters, lua_op, lua_fs, lua_out>>
    /\ UNCHANGED notFilter

NewDnf ==
    /\ epc = "building" /\ Len(ev_pool) < MaxPool
    /\ \E clauses \in DnfChoices, src \in Usable(ev_pool) :
          \E d \in {new_dnf(predicates, clauses, src)} :
              /\ predicates' = d.predicates
              /\ ev_pool' = Append(ev_pool, d.f)
    /\ UNCHANGED <<results, nroot, worklist, parent_of, any_action, matcher,
                   epc, lua_filters, lua_op, lua_fs, lua_out>>
    /\ UNCHANGED notFilter

\* The node the evaluator is asked about: the one pushed last.
Roots(p) == {Len(p) - 1}

\* normalize(root), up to its while loop.
Normalize ==
    /\ epc \in {"building", "materialized", "normalized"} /\ ev_pool # <<>>
    /\ \E root \in Roots(ev_pool) :
          IF results # <<>>
          THEN /\ epc' = "panicked"
               /\ UNCHANGED <<nroot, worklist, parent_of>>
          ELSE \E po \in {post_order(ev_pool, root)} :
                  /\ nroot' = root
                  /\ worklist' = po.order
                  /\ parent_of' = po.parent_of
                  /\ epc' = IF epc = "normalized" THEN "renormalizing" ELSE "normalizing"
    /\ any_action' = FALSE
    /\ UNCHANGED <<ev_pool, predicates, results, matcher,
                   lua_filters, lua_op, lua_fs, lua_out>>
    /\ UNCHANGED notFilter

\* One rewrite_one(x) of inner's loop for the node x at the front of the
\* worklist; when it comes back with None, x leaves the worklist and its
\* parent is queued if x was rewritten.
RewriteOne ==
    /\ epc \in {"normalizing", "renormalizing"}
    /\ LET x == Head(worklist)
           action == decide_rewrite_action(ev_pool, x)
       IN IF action.a = "None"
          THEN /\ IF any_action /\ x # nroot
                  THEN IF parent_of[x + 1] = UsizeMax
                       THEN epc' = "panicked" /\ worklist' = worklist
                       ELSE /\ worklist' = Append(Tail(worklist), parent_of[x + 1])
                            /\ epc' = epc
                  ELSE /\ worklist' = Tail(worklist)
                       /\ epc' = IF Tail(worklist) = <<>> THEN "normalized" ELSE epc
               /\ any_action' = FALSE
               /\ ev_pool' = ev_pool
          ELSE \E o \in do_rewrite_action(ev_pool, action) :
                  /\ ev_pool' = o.pool
                  /\ epc' = IF o.panic THEN "panicked" ELSE epc
                  /\ any_action' = TRUE
                  /\ worklist' = worklist
    /\ UNCHANGED <<predicates, results, nroot, parent_of, matcher,
                   lua_filters, lua_op, lua_fs, lua_out>>
    /\ UNCHANGED notFilter

\* materialize(matcher, id) through the Rust API.
Materialize ==
    /\ epc \in {"building", "normalized"} /\ lua_op = "none" /\ ev_pool # <<>>
    /\ \E id \in Roots(ev_pool) :
          \E m \in {materialize(ev_pool, predicates, matcher, results, id)} :
              /\ results' = m.results
              /\ epc' = IF m.panic THEN "panicked" ELSE "materialized"
    /\ UNCHANGED <<ev_pool, predicates, nroot, worklist, parent_of, any_action, matcher,
                   lua_filters, lua_op, lua_fs, lua_out>>
    /\ UNCHANGED notFilter

EvaluatorNext ==
    \/ new_filterset
    \/ NewDnf
    \/ Normalize
    \/ RewriteOne
    \/ Materialize

\* ---- normalize over DNFs with many clauses

MaxClauses == 9

\* A clause list of n clauses of one predicate each.
Clauses(n) == [i \in 1..n |-> <<Predicate("a", "Equal", i % (MaxId + 1))>>]

\* The numbers of clauses of the DNFs handed to new_dnf.
DnfSizes == {1, MaxClauses - 1, MaxClauses}

\* The evaluator after two Primitives, two DNFs over the first of them, a DNF
\* over the second and an And or an Or of the three DNFs have been pushed.
DnfForest(S0, S1, a, b, c, kind) ==
    LET d1 == new_dnf(<<>>, Clauses(a), 0)
        d2 == new_dnf(d1.predicates, Clauses(b), 0)
        d3 == new_dnf(d2.predicates, Clauses(c), 1)
    IN [pool |-> <<Primitive(S0), Primitive(S1), d1.f, d2.f, d3.f,
                   IF kind = "And" THEN And(<<2, 3, 4>>) ELSE Or(<<2, 3, 4>>)>>,
        predicates |-> d3.predicates]

\* The evaluator after a Primitive, two DNFs over it and an And or an Or of
\* the two DNFs have been pushed.
DnfPair(S0, a, b, kind) ==
    LET d1 == new_dnf(<<>>, Clauses(a), 0)
        d2 == new_dnf(d1.predicates, Clauses(b), 0)
    IN [pool |-> <<Primitive(S0), d1.f, d2.f,
                   IF kind = "And" THEN And(<<1, 2>>) ELSE Or(<<1, 2>>)>>,
        predicates |-> d2.predicates]

\* The numbers of clauses of the DNFs of a chain: products on both sides of
\* MAX_DNF_CLAUSES.
ChainSizes ==
    {0, 1, 2, MAX_DNF_CLAUSES \div 2 - 1, MAX_DNF_CLAUSES \div 2,
     MAX_DNF_CLAUSES - 1, MAX_DNF_CLAUSES}

\* The evaluator after a Primitive, a DNF of b clauses over it and a DNF of
\* a clauses over that DNF have been pushed.
DnfChain(S0, a, b) ==
    LET d1 == new_dnf(<<>>, Clauses(b), 0)
        d2 == new_dnf(d1.predicates, Clauses(a), 1)
    IN [pool |-> <<Primitive(S0), d1.f, d2.f>>, predicates |-> d2.predicates]

\* The same with a third DNF, of c clauses, between the Primitive and the
\* other two.
DnfChain3(S0, a, b, c) ==
    LET d1 == new_dnf(<<>>, Clauses(c), 0)
        d2 == new_dnf(d1.predicates, Clauses(b), 1)
        d3 == new_dnf(d2.predicates, Clauses(a), 2)
    IN [pool |-> <<Primitive(S0), d1.f, d2.f, d3.f>>, predicates |-> d3.predicates]

DnfChains ==
    {DnfChain(S0, a, b) : S0 \in SUBSET Ids, a \in ChainSizes, b \in ChainSizes}
    \cup {DnfChain3(S0, a, b, c) :
             S0 \in SUBSET Ids, a \in {1, 2}, b \in {1, MAX_DNF_CLAUSES \div 2},
             c \in {1, 2}}

DnfForests ==
    {DnfForest(S0, S1, a, b, c, kind) :
        S0 \in SUBSET Ids, S1 \in SUBSET Ids, a \in DnfSizes, b \in DnfSizes,
        c \in DnfSizes, kind \in {"And", "Or"}}
    \cup {DnfPair(S0, a, b, kind) :
             S0 \in SUBSET Ids, a \in DnfSizes, b \in DnfSizes, kind \in {"And", "Or"}}

NormalizeInit ==
    /\ \E e \in DnfForests \cup DnfChains :
          ev_pool = e.pool /\ predicates = e.predicates
    /\ results = <<>>
    /\ nroot = 0 /\ worklist = <<>> /\ parent_of = <<>> /\ any_action = FALSE
    /\ matcher = "YesMan" /\ epc = "building"
    /\ lua_filters = <<>> /\ lua_op = "none" /\ lua_fs = NoFilterset /\ lua_out = {}

NormalizeNext ==
    \/ Normalize
    \/ RewriteOne

\* ---- a script that builds a union or an intersection and materializes it

\* The lists a script hands to en_filterset_from_list.
LuaLists == {Ascending(S) : S \in SUBSET Ids}

\* The filters a script hands to en_filter.
LuaPredicates == {[target |-> "a", relation |-> r, value |-> 0] : r \in {"EQ", "GT"}}

LuaLeaves == {en_filterset_from_list(t) : t \in LuaLists}

\* The filtersets a script hands to en_filterset_union / en_filterset_intersect.
LuaInputs ==
    LuaLeaves
        \cup {en_filter(f, s) : f \in LuaPredicates, s \in LuaLeaves}
        \cup {en_filterset_union(<<a, b>>) : a, b \in LuaLeaves}
        \cup {en_filterset_intersect(<<a, b>>) : a, b \in LuaLeaves}

LuaInit ==
    /\ ev_pool = <<>> /\ predicates = <<>> /\ results = <<>>
    /\ nroot = 0 /\ worklist = <<>> /\ parent_of = <<>> /\ any_action = FALSE
    /\ matcher = "En" /\ epc = "script"
    /\ lua_filters \in {<<a>> : a \in LuaInputs} \cup (LuaInputs \X LuaInputs)
    /\ lua_op = "none" /\ lua_fs = NoFilterset /\ lua_out = {}

EnFiltersetUnion ==
    /\ epc = "script"
    /\ lua_fs' = en_filterset_union(lua_filters)
    /\ lua_op' = "union"
    /\ epc' = "built"
    /\ UNCHANGED <<ev_pool, predicates, results, nroot, worklist, parent_of, any_action,
                   matcher, lua_filters, lua_out>>
    /\ UNCHANGED notFilter

EnFiltersetIntersect ==
    /\ epc = "script"
    /\ lua_fs' = en_filterset_intersect(lua_filters)
    /\ lua_op' = "intersect"
    /\ epc' = "built"
    /\ UNCHANGED <<ev_pool, predicates, results, nroot, worklist, parent_of, any_action,
                   matcher, lua_filters, lua_out>>
    /\ UNCHANGED notFilter

\* en_filterset_materialize up to normalize's while loop: a new evaluator,
\* the items converted and pushed, the post-order of the root queued.
EnFiltersetMaterialize ==
    /\ epc = "built"
    /\ \E l \in {LoadItems(lua_fs.items, 1, <<>>, <<>>)} :
          IF l.err
          THEN /\ epc' = "lua_error"
               /\ UNCHANGED <<ev_pool, predicates, nroot, worklist, parent_of>>
          ELSE IF ~InPool(l.pool, lua_fs.root)
          THEN /\ epc' = "panicked"
               /\ ev_pool' = l.pool /\ predicates' = l.predicates
               /\ UNCHANGED <<nroot, worklist, parent_of>>
          ELSE \E po \in {post_order(l.pool, lua_fs.root)} :
                  /\ ev_pool' = l.pool /\ predicates' = l.predicates
                  /\ nroot' = lua_fs.root
                  /\ worklist' = po.order
                  /\ parent_of' = po.parent_of
                  /\ epc' = "normalizing"
    /\ any_action' = FALSE
    /\ UNCHANGED <<results, matcher, lua_filters, lua_op, lua_fs, lua_out>>
    /\ UNCHANGED notFilter

\* en_filterset_materialize after normalize: materialize(root) with the
\* EnMatcher, and the ids of results[root] returned.
EnFiltersetMaterializeReturn ==
    /\ epc = "normalized" /\ lua_op # "none"
    /\ \E m \in {materialize(ev_pool, predicates, matcher, results, nroot)} :
          /\ results' = m.results
          /\ epc' = IF m.panic THEN "panicked" ELSE "returned"
          /\ lua_out' = IF m.panic THEN lua_out ELSE m.results[nroot]
    /\ UNCHANGED <<ev_pool, predicates, nroot, worklist, parent_of, any_action, matcher,
                   lua_filters, lua_op, lua_fs>>
    /\ UNCHANGED notFilter

LuaNext ==
    \/ EnFiltersetUnion
    \/ EnFiltersetIntersect
    \/ EnFiltersetMaterialize
    \/ RewriteOne
    \/ EnFiltersetMaterializeReturn

\* C9: once a node has been materialized, the result of every And of two
\* filter-sets is the intersection of the results of the two, and the result
\* of every Or of two filter-sets is their union.
C9_AndOrMaterialize ==
    epc = "materialized" =>
        \A n \in DOMAIN results :
            LET f == At(ev_pool, n)
            IN /\ (f.k = "And" /\ Len(f.items) = 2) =>
                      results[n] = results[f.items[1]] \cap results[f.items[2]]
               /\ (f.k = "Or" /\ Len(f.items) = 2) =>
                      results[n] = results[f.items[1]] \cup results[f.items[2]]

\* C11: once a node has been materialized, the result of every Not node,
\* clamped to the ids of the log, is the ids of the log minus the clamped
\* result of its source.
C11_NotClamped ==
    epc = "materialized" =>
        \A n \in DOMAIN results :
            At(ev_pool, n).k = "Not" =>
                results[n] \cap Ids = Ids \ (results[At(ev_pool, n).src] \cap Ids)

\* A Not over a source with some but not all ids of the log has been
\* materialized, and its result holds an id past the log.
C11_Witness ==
    /\ epc = "materialized"
    /\ \E n \in DOMAIN results :
          /\ At(ev_pool, n).k = "Not"
          /\ results[At(ev_pool, n).src] \cap Ids \notin {{}, Ids}
          /\ results[n] \ Ids # {}

\* C12: normalize(root) terminates: once it has started it comes to its end,
\* and every action other than None that decide_rewrite_action returns for
\* the node at the front of the worklist changes the pool when it is applied.
C12_NormalizeTerminates ==
    /\ [](epc = "normalizing" =>
            LET action == decide_rewrite_action(ev_pool, Head(worklist))
            IN action.a # "None" =>
                   \A o \in do_rewrite_action(ev_pool, action) : o.pool # ev_pool)
    /\ (epc = "normalizing") ~> (epc \in {"normalized", "panicked"})

\* The nodes of the pool that the root reaches through the references of
\* the nodes.
Reachable(p, root) ==
    LET R[n \in 0..Len(p)] ==
            IF n = 0 THEN {root}
            ELSE R[n - 1] \cup
                 UNION {{c \in Range(fs_children(At(p, x))) : InPool(p, c)} : x \in R[n - 1]}
    IN R[Len(p)]

\* C13: the pools being built so that only Primitives have more than one
\* referrer, after any number of rewrite actions of normalize, and at its end,
\* no node that the root reaches is Dead.
C13_NoReachableDead ==
    epc \in {"normalizing", "renormalizing", "normalized"} =>
        \A n \in Reachable(ev_pool, nroot) : At(ev_pool, n).k # "Dead"

\* C14: when normalize(root) has returned, decide_rewrite_action gives None for
\* every node that the root reaches, and a normalize(root) that follows one
\* that returned finds None for every node it visits: it applies no rewrite
\* action and the pool stays as it is.
C14_NormalizeIdempotent ==
    /\ epc = "normalized" =>
           \A n \in Reachable(ev_pool, nroot) :
               decide_rewrite_action(ev_pool, n).a = "None"
    /\ epc = "renormalizing" =>
           decide_rewrite_action(ev_pool, Head(worklist)).a = "None"

\* A second normalize is on its way over a pool that the first one rewrote: a
\* node of the pool is Dead.
C14_Witness ==
    /\ epc = "renormalizing"
    /\ Len(worklist) > 1
    /\ \E i \in 1..Len(ev_pool) : ev_pool[i].k = "Dead"

\* The clause lists of the DNFs of a group, one after the other.
GroupClauses(p, dnfs) == Flatten([i \in 1..Len(dnfs) |-> At(p, dnfs[i]).clauses])

\* What a MergeDnfsInOr of the node x with the groups g has made of the pool
\* p: in q the first DNF of every group of two or more holds the clause
\* lists of the group one after the other over the source of the group, the
\* other DNFs of the group are Dead, and x is an Or of what is left.
MergedInOr(p, q, x, g) ==
    /\ \A s \in DOMAIN g :
          IF Len(g[s]) < 2
          THEN \A i \in 1..Len(g[s]) : At(q, g[s][i]) = At(p, g[s][i])
          ELSE /\ At(q, g[s][1]) = RelDnf(GroupClauses(p, g[s]), s)
               /\ \A i \in 2..Len(g[s]) : At(q, g[s][i]) = Dead
    /\ At(q, x).k = "Or"
    /\ Range(At(q, x).items) =
          Range(At(p, x).items)
              \ UNION {{g[s][i] : i \in 2..Len(g[s])} : s \in DOMAIN g}

\* C28: after normalize no Or that can be reached from the root has two
\* RelDnf children over the same source, and every MergeDnfsInOr puts, in
\* the place of the children of an Or that share a source, one RelDnf over
\* that source whose clauses are theirs one after the other.
C28_OrDnfsMergedBySource ==
    /\ [](epc = "normalized" =>
            \A n \in Reachable(ev_pool, nroot) :
                At(ev_pool, n).k = "Or" =>
                    \A i, j \in 1..Len(At(ev_pool, n).items) :
                        LET c == At(ev_pool, At(ev_pool, n).items[i])
                            d == At(ev_pool, At(ev_pool, n).items[j])
                        IN (i # j /\ c.k = "RelDnf" /\ d.k = "RelDnf") => c.src # d.src)
    /\ [][(epc \in {"normalizing", "renormalizing"} /\ epc' # "panicked"
              /\ decide_rewrite_action(ev_pool, Head(worklist)).a = "MergeDnfsInOr")
            => MergedInOr(ev_pool, ev_pool', Head(worklist),
                          decide_rewrite_action(ev_pool, Head(worklist)).groups)]_vars

\* Or([RelDnf(c1, U), RelDnf(c2, U)]) has been normalized to RelDnf(c1 + c2, U):
\* the root is the merged DNF, the Or and the second DNF are gone.
C28_Witness ==
    /\ epc = "normalized" /\ Len(ev_pool) = 4
    /\ At(ev_pool, nroot).k = "RelDnf" /\ At(ev_pool, nroot).src = 0
    /\ Len(At(ev_pool, nroot).clauses) = 1 + MaxClauses
    /\ At(ev_pool, 1) = Dead /\ At(ev_pool, 2) = Dead

\* The nodes of the pool that are a RelDnf whose src is a RelDnf.
DnfOverDnf(p) ==
    {id \in 0..(Len(p) - 1) : At(p, id).k = "RelDnf" /\ At(p, At(p, id).src).k = "RelDnf"}

\* |c1| * |c2| for the DNF id and the DNF it stands on.
FusedLen(p, id) == Len(At(p, id).clauses) * Len(At(p, At(p, id).src).clauses)

\* C29: DnfDnf is decided for a RelDnf(c1, src) over a RelDnf(c2, src2) if
\* and only if |c1| * |c2| < 128; the rewrite of such a node leaves the pool
\* as it was when the product is 128 or more, and otherwise makes the node a
\* RelDnf of |c1| * |c2| clauses over src2 and the inner node Dead; what
\* normalize leaves nested has a product of 128 or more.
C29_DnfDnfBoundedByProduct ==
    /\ [](\A id \in DnfOverDnf(ev_pool) :
             decide_rewrite_action(ev_pool, id).a = "DnfDnf"
                 <=> FusedLen(ev_pool, id) < 128)
    /\ [](epc = "normalized" =>
             \A id \in DnfOverDnf(ev_pool) \cap Reachable(ev_pool, nroot) :
                 FusedLen(ev_pool, id) >= 128)
    /\ [][(epc \in {"normalizing", "renormalizing"}
              /\ Head(worklist) \in DnfOverDnf(ev_pool))
            => LET x == Head(worklist)
                   inner == At(ev_pool, x).src
               IN IF FusedLen(ev_pool, x) >= 128
                  THEN ev_pool' = ev_pool /\ epc' # "panicked"
                  ELSE /\ epc' # "panicked"
                       /\ At(ev_pool', x).k = "RelDnf"
                       /\ Len(At(ev_pool', x).clauses) = FusedLen(ev_pool, x)
                       /\ At(ev_pool', x).src = At(ev_pool, inner).src
                       /\ At(ev_pool', inner) = Dead]_vars

\* A DNF of 127 clauses over a DNF of one clause has been fused: the root is
\* a RelDnf of 127 clauses over the Primitive and the inner DNF is Dead.
C29_Witness ==
    /\ epc = "normalized" /\ Len(ev_pool) = 3
    /\ At(ev_pool, 2).k = "RelDnf" /\ At(ev_pool, 2).src = 0
    /\ Len(At(ev_pool, 2).clauses) = MAX_DNF_CLAUSES - 1
    /\ At(ev_pool, 1) = Dead

\* C32: CompressAnd (CompressOr) at a node whose items include the And (Or)
\* nodes I never fails on an index or on the kind of a node, and leaves the
\* node with each of (its items without I) and the items of the nodes of I
\* once, and the nodes of I Dead.
C32_CompressFlattens ==
    [][(epc \in {"normalizing", "renormalizing"}
          /\ decide_rewrite_action(ev_pool, Head(worklist)).a \in {"CompressAnd", "CompressOr"})
        => LET x == Head(worklist)
               I == Range(decide_rewrite_action(ev_pool, x).inner)
               after == At(ev_pool', x)
           IN /\ epc' # "panicked"
              /\ after.k = At(ev_pool, x).k
              /\ Range(after.items) =
                    (Range(At(ev_pool, x).items) \ I)
                        \cup UNION {Range(At(ev_pool, i).items) : i \in I}
              /\ Cardinality(Range(after.items)) = Len(after.items)
              /\ \A i \in I : At(ev_pool', i) = Dead]_vars

\* The groups MergeDnfsInAnd is meant for: two or more RelDnf items of one
\* source whose clause counts multiply to 64 or less.
Mergeable(p, g) == {s \in DOMAIN g : Len(g[s]) >= 2 /\ len_of_merged_dnf(p, g[s]) <= 64}

\* C33: MergeDnfsInAnd is decided for an And only when some group of two or
\* more RelDnf items of one source has a product of clause counts of 64 or
\* less; the rewrite puts, for each such group, the cartesian product of
\* the clause lists of the group into one RelDnf over the source, the other
\* members being Dead and out of the And, and leaves the other groups as
\* they were.
C33_MergeInAndWithinBound ==
    /\ [](\A id \in 0..(Len(ev_pool) - 1) :
             (At(ev_pool, id).k = "And"
                /\ decide_rewrite_action(ev_pool, id).a = "MergeDnfsInAnd")
                 => Mergeable(ev_pool, decide_rewrite_action(ev_pool, id).groups) # {})
    /\ [][(epc \in {"normalizing", "renormalizing"} /\ epc' # "panicked"
              /\ decide_rewrite_action(ev_pool, Head(worklist)).a = "MergeDnfsInAnd")
            => LET x == Head(worklist)
                   g == decide_rewrite_action(ev_pool, x).groups
                   gone == UNION {{g[s][i] : i \in 2..Len(g[s])} : s \in Mergeable(ev_pool, g)}
               IN /\ \A s \in DOMAIN g :
                        IF s \in Mergeable(ev_pool, g)
                        THEN /\ At(ev_pool', g[s][1]) =
                                  RelDnf(MultiCartesian([i \in 1..Len(g[s]) |->
                                             At(ev_pool, g[s][i]).clauses]), s)
                             /\ \A i \in 2..Len(g[s]) : At(ev_pool', g[s][i]) = Dead
                        ELSE \A i \in 1..Len(g[s]) :
                                 At(ev_pool', g[s][i]) = At(ev_pool, g[s][i])
                  /\ At(ev_pool', x).k = "And"
                  /\ Range(At(ev_pool', x).items) = Range(At(ev_pool, x).items) \ gone]_vars

\* C36: materialize never looks up the result of a child that has none: a
\* call on a pool whose nodes refer to nodes pushed before them comes to its
\* end without a panic, and afterwards the root and every node it reaches
\* have a result.
C36_ChildrenMaterializedFirst ==
    /\ [][(epc \in {"building", "normalized"}) => (epc' # "panicked")]_vars
    /\ [](epc = "materialized" =>
            \A root \in Roots(ev_pool) : Reachable(ev_pool, root) \subseteq DOMAIN results)

\* A node over a node over a Primitive has been materialized.
C36_Witness ==
    /\ epc = "materialized" /\ Len(ev_pool) = MaxPool
    /\ DOMAIN results = 0..(MaxPool - 1)
    /\ \E root \in Roots(ev_pool) :
          /\ At(ev_pool, root).k \in {"Not", "BlackBox", "RelDnf"}
          /\ At(ev_pool, At(ev_pool, root).src).k \in {"And", "Or"}

\* The ids a predicate table of a script holds for.
LuaPredicateHolds(t, id) ==
    id \in Ids /\ t.target = "a"
        /\ CASE t.relation = "EQ" -> id = t.value
             [] t.relation = "GT" -> id > t.value
             [] t.relation = "LT" -> id < t.value

RECURSIVE LuaIdsOf(_, _)
\* The ids that are in the item i of a filterset table.
LuaIdsOf(items, i) ==
    LET item == items[i + 1]
    IN CASE item.type = "prim_list" -> Range(item.value)
         [] item.type = "rel_dnf" ->
               {id \in LuaIdsOf(items, item.src[1]) :
                   \E c \in 1..Len(item.clauses) :
                       \A j \in 1..Len(item.clauses[c]) :
                           LuaPredicateHolds(item.clauses[c][j], id)}
         [] item.type = "union" ->
               UNION {LuaIdsOf(items, item.srcs[k]) : k \in 1..Len(item.srcs)}
         [] item.type = "intersect" ->
               {id \in Full : \A k \in 1..Len(item.srcs) : id \in LuaIdsOf(items, item.srcs[k])}

\* The ids that are in a filterset of a script.
LuaIds(fs) == LuaIdsOf(fs.items, fs.root)

\* C10: en_filterset_materialize of the filterset en_filterset_union made
\* returns the ids that are in any of the input filtersets, and of the one
\* en_filterset_intersect made, the ids that are in all of them.
C10_UnionIntersectMaterialize ==
    (lua_op # "none" /\ epc \in {"returned", "panicked", "lua_error"}) =>
        /\ epc = "returned"
        /\ lua_op = "union" =>
              lua_out = UNION {LuaIds(lua_filters[k]) : k \in 1..Len(lua_filters)}
        /\ lua_op = "intersect" =>
              lua_out = {id \in Full : \A k \in 1..Len(lua_filters) :
                                           id \in LuaIds(lua_filters[k])}

----------------------------------------------------------------------------
(* The worker that watches an IET file                                      *)
(* (entrace_core/src/remote/file_iet_log_provider.rs)                       *)

MaxFileLen == 4
MaxPayload == 1

\* A byte that no TraceEntry has at its place: bincode gives a DecodeError
\* that is not an unexpected end for it.
Invalid == MaxPayload + 1

\* The bytes of the file: an entry is written as the length of its payload
\* and the bytes of the payload.
ByteValues == 0..Invalid

Decoded(kind, pos, entry) == [kind |-> kind, pos |-> pos, entry |-> entry]

\* bincode::serde::decode_from_std_read of one TraceEntry by a reader at pos:
\* "Ok" with the entry, "Eof" when the file ends inside the entry, "Other"
\* for a byte that cannot be decoded; pos is where the reader is left.
decode_from_std_read(file, pos) ==
    IF pos >= Len(file) THEN Decoded("Eof", Len(file), <<>>)
    ELSE LET n == file[pos + 1]
             avail == IF Len(file) - pos - 1 < n THEN Len(file) - pos - 1 ELSE n
             bad == {i \in 1..avail : file[pos + 1 + i] = Invalid}
         IN IF n = Invalid THEN Decoded("Other", pos + 1, <<>>)
            ELSE IF bad # {}
            THEN Decoded("Other", pos + 1 + (CHOOSE i \in bad : \A j \in bad : i <= j), <<>>)
            ELSE IF avail < n THEN Decoded("Eof", Len(file), <<>>)
            ELSE Decoded("Ok", pos + 1 + n, SubSeq(file, pos + 2, pos + 1 + n))

LoadedTrace(err, entries, pool_len) == [err |-> err, data |-> entries, pool_len |-> pool_len]

RECURSIVE LoadLoop(_, _, _, _, _)
\* load_iet_trace's loop, length_prefixed being false.
LoadLoop(file, pos, entries, pool_len, had_root) ==
    Eval(decode_from_std_read(file, pos), LAMBDA d :
        CASE d.kind = "Ok" ->
                 LoadLoop(file, d.pos, Append(entries, d.entry),
                          IF had_root THEN pool_len + 1 ELSE pool_len, TRUE)
          [] d.kind = "Eof" ->
                 IF Len(entries) # pool_len
                 THEN LoadedTrace("LengthMismatch", entries, pool_len)
                 ELSE LoadedTrace("none", entries, pool_len)
          [] d.kind = "Other" -> LoadedTrace("DecodeError", entries, pool_len))

\* load_iet_trace over the bytes of a file.
load_iet_trace_read(file) == LoadLoop(file, 0, <<>>, 1, FALSE)

Standby == [kind |-> "Standby", retries |-> 0]

Retrying(retries) == [kind |-> "Retrying", retries |-> retries]

MAX_RETRIES == 8

Modified(err, pos, lgp, rs, entries, errors) ==
    [err |-> err, pos |-> pos, last_good_position |-> lgp, read_state |-> rs,
     entries |-> entries, errors |-> errors]

RECURSIVE OnModifyLoop(_, _, _, _, _, _)
\* on_modify's loop, length_prefixed being false. errors counts the decode
\* errors other than an unexpected end that were met since the last entry
\* that was decoded.
OnModifyLoop(file, pos, lgp, rs, entries, errors) ==
    Eval(decode_from_std_read(file, pos), LAMBDA d :
        CASE d.kind = "Ok" ->
                 OnModifyLoop(file, d.pos, d.pos, Standby, Append(entries, d.entry), 0)
          [] d.kind = "Eof" ->
                 Modified("none", lgp, lgp, rs, entries, errors)
          [] d.kind = "Other" ->
                 IF rs.kind = "Retrying"
                 THEN IF rs.retries > MAX_RETRIES
                      THEN Modified("NoMoreRetries", d.pos, lgp, rs, entries, errors + 1)
                      ELSE OnModifyLoop(file, d.pos, lgp, Retrying(rs.retries + 1),
                                        entries, errors + 1)
                 ELSE OnModifyLoop(file, d.pos, lgp, rs, entries, errors + 1))

on_modify(file, pos, lgp, rs, errors) == OnModifyLoop(file, pos, lgp, rs, <<>>, errors)

NotifyIdle ==
    /\ nw_file = <<>> /\ nw_file_pos = 0 /\ nw_reader_pos = 0
    /\ last_good_position = 0 /\ nw_read_state = Standby
    /\ nw_tx = <<>> /\ nw_event_tx = <<>> /\ nw_arx = 0 /\ nw_errors = 0
    /\ nw_pc = "off"

NotifyInit ==
    /\ nw_file = <<>> /\ nw_file_pos = 0 /\ nw_reader_pos = 0
    /\ last_good_position = 0 /\ nw_read_state = Standby
    /\ nw_tx = <<>> /\ nw_event_tx = <<>> /\ nw_arx = 0 /\ nw_errors = 0
    /\ nw_pc = "closed"

\* The traced program writes to the file: some bytes of the entries it has to
\* write reach the file, or bytes that are no entry. The watcher, once it is
\* set up, gets a Modify(Data) event.
WriteFile ==
    /\ nw_pc \in {"closed", "loaded", "watching"}
    /\ Len(nw_file) < MaxFileLen
    /\ \E b \in ByteValues : nw_file' = Append(nw_file, b)
    /\ nw_arx' = IF nw_pc = "watching" THEN nw_arx + 1 ELSE nw_arx
    /\ UNCHANGED <<nw_file_pos, nw_reader_pos, last_good_position, nw_read_state,
                   nw_tx, nw_event_tx, nw_errors, nw_pc>>
    /\ UNCHANGED notNotify

\* FileIETLogProvider::new up to the spawn of the worker: load_iet_trace
\* through a BufReader over the file. The BufReader reads the file to its
\* end before the decoder meets the end: that is where the file is left.
FileIETLogProviderNew ==
    /\ nw_pc = "closed"
    /\ \E l \in {load_iet_trace_read(nw_file)} :
          IF l.err # "none"
          THEN /\ nw_pc' = "failed"
               /\ nw_event_tx' = Append(nw_event_tx, l.err)
               /\ UNCHANGED <<nw_file_pos, nw_tx>>
          ELSE /\ nw_pc' = "loaded"
               /\ nw_file_pos' = Len(nw_file)
               /\ nw_tx' = l.data
               /\ UNCHANGED nw_event_tx
    /\ UNCHANGED <<nw_file, nw_reader_pos, last_good_position, nw_read_state,
                   nw_arx, nw_errors>>
    /\ UNCHANGED notNotify

\* The worker thread: a new BufReader over the file, IETNotifyWorker::new,
\* whose last_good_position is reader.stream_position(), and work() up to the
\* watcher being set up.
IETNotifyWorkerNew ==
    /\ nw_pc = "loaded"
    /\ last_good_position' = nw_file_pos
    /\ nw_reader_pos' = nw_file_pos
    /\ nw_read_state' = Standby
    /\ nw_pc' = "watching"
    /\ UNCHANGED <<nw_file, nw_file_pos, nw_tx, nw_event_tx, nw_arx, nw_errors>>
    /\ UNCHANGED notNotify

\* work()'s loop: a Modify(Data) event is received, on_modify runs, its
\* entries are sent and its error, if any, goes to the event channel.
Work ==
    /\ nw_pc = "watching" /\ nw_arx > 0
    /\ nw_arx' = nw_arx - 1
    /\ \E m \in {on_modify(nw_file, nw_reader_pos, last_good_position,
                           nw_read_state, nw_errors)} :
          /\ nw_reader_pos' = m.pos
          /\ last_good_position' = m.last_good_position
          /\ nw_read_state' = m.read_state
          /\ nw_tx' = nw_tx \o m.entries
          /\ nw_errors' = m.errors
          /\ nw_event_tx' = IF m.err = "none" THEN nw_event_tx
                            ELSE Append(nw_event_tx, m.err)
    /\ UNCHANGED <<nw_file, nw_file_pos, nw_pc>>
    /\ UNCHANGED notNotify

NotifyNext ==
    \/ WriteFile
    \/ FileIETLogProviderNew
    \/ IETNotifyWorkerNew
    \/ Work

\* The offsets at which the entries written to the file end, the file being
\* read from its start.
RECURSIVE RecordEnds(_, _)
RecordEnds(file, pos) ==
    Eval(decode_from_std_read(file, pos), LAMBDA d :
        IF d.kind = "Ok" THEN <<d.pos>> \o RecordEnds(file, d.pos) ELSE <<>>)

\* C15: between two on_modify calls of the worker, and so at the start and
\* at the end of each, last_good_position is the offset at which the last
\* entry that was decoded ends, when the file holds entries only.
C15_LastGoodPosition ==
    (nw_pc = "watching" /\ Invalid \notin Range(nw_file)) =>
        /\ Len(nw_tx) <= Len(RecordEnds(nw_file, 0))
        /\ last_good_position = RecordEnds(nw_file, 0)[Len(nw_tx)]

\* C16: a decode error other than an unexpected end puts the worker in
\* Retrying, and after MAX_RETRIES of them in a row NoMoreRetries is on the
\* event channel.
C16_RetryingThenNoMoreRetries ==
    nw_pc = "watching" =>
        /\ nw_errors > 0 => nw_read_state.kind = "Retrying"
        /\ nw_errors >= MAX_RETRIES => "NoMoreRetries" \in Range(nw_event_tx)

\* The entries written to the file, the file being read from its start.
RECURSIVE RecordsOf(_, _)
RecordsOf(file, pos) ==
    Eval(decode_from_std_read(file, pos), LAMBDA d :
        IF d.kind = "Ok" THEN <<d.entry>> \o RecordsOf(file, d.pos) ELSE <<>>)

\* C34: what the initial load gave and the worker has sent since, one after
\* the other, are the first complete entries of the file, each once and in
\* the order of the file, whatever part of an entry the file ended in when
\* an event was handled; the file holds entries only.
C34_EachRecordOnceInFileOrder ==
    (nw_pc = "watching" /\ Invalid \notin Range(nw_file)) =>
        /\ Len(nw_tx) <= Len(RecordsOf(nw_file, 0))
        /\ nw_tx = SubSeq(RecordsOf(nw_file, 0), 1, Len(nw_tx))

----------------------------------------------------------------------------
(* The query dispatcher (gui/src/search/mod.rs, SearchState::new_query)     *)

NumShards == 2

Shards == 1..NumShards

\* Result<PartialQueryResult, QueryError>
PartialOk(ids) == [ok |-> TRUE, ids |-> ids, err |-> "none"]

PartialErr(err) == [ok |-> FALSE, ids |-> <<>>, err |-> err]

\* rv: None for every thread.
NoPartial == [ok |-> FALSE, ids |-> <<>>, err |-> "None"]

\* What lua.load(text).eval() of the shard i can come to: a value that is a
\* list of ids, a value that is no list, an error of the script, and, when
\* the script has the API, the JoinShutdown of a join.
EvalOutcomes(i, has_api) ==
    {[kind |-> "Ok", ids |-> ids] : ids \in {<<>>, <<i>>}}
        \cup {[kind |-> k, ids |-> <<>>] : k \in {"NotAList", "LuaError"}}
        \cup (IF has_api THEN {[kind |-> "JoinShutdown", ids |-> <<>>]} ELSE {})

\* The match on loaded: what the thread writes to its slot of the results.
PartialOf(loaded) ==
    CASE loaded.kind = "Ok" -> PartialOk(loaded.ids)
      [] loaded.kind = "NotAList" -> PartialErr("FailedToCoerce")
      [] loaded.kind = "JoinShutdown" -> PartialOk(<<>>)
      [] OTHER -> PartialErr("LuaError")

RECURSIVE ReconcileLoop(_, _, _)
\* The loop over the partial results: the ids are gathered, the first error
\* is what is sent.
ReconcileLoop(rr, i, total_ids) ==
    IF i > Len(rr) THEN PartialOk(total_ids)
    ELSE IF rr[i].ok THEN ReconcileLoop(rr, i + 1, total_ids \o rr[i].ids)
    ELSE PartialErr(rr[i].err)

SearchIdle ==
    /\ query_results = <<>> /\ query_setup = <<>> /\ query_loaded = <<>>
    /\ query_pc = <<>> /\ query_tx = <<>>

\* The controller thread has spawned its threads.
SearchInit ==
    /\ query_results = [i \in Shards |-> NoPartial]
    /\ query_setup = [i \in Shards |-> "none"]
    /\ query_loaded = [i \in Shards |-> "none"]
    /\ query_pc = [i \in Shards |-> "setup"]
    /\ query_tx = <<>>

\* The thread i up to the evaluation of the query: setup_lua_on_arc_rwlock,
\* whose error is written to the slot of the thread.
SetupLua(i) ==
    /\ query_pc[i] = "setup"
    /\ \E ok \in BOOLEAN :
          /\ query_setup' = [query_setup EXCEPT ![i] = IF ok THEN "ok" ELSE "failed"]
          /\ query_results' = IF ok THEN query_results
                              ELSE [query_results EXCEPT ![i] = PartialErr("LuaError")]
    /\ query_pc' = [query_pc EXCEPT ![i] = "eval"]
    /\ UNCHANGED <<query_loaded, query_tx>>
    /\ UNCHANGED notSearch

\* The thread i from lua.load(..).eval() to its end.
EvalQuery(i) ==
    /\ query_pc[i] = "eval"
    /\ \E loaded \in EvalOutcomes(i, query_setup[i] = "ok") :
          /\ query_loaded' = [query_loaded EXCEPT ![i] = loaded.kind]
          /\ query_results' = [query_results EXCEPT ![i] = PartialOf(loaded)]
    /\ query_pc' = [query_pc EXCEPT ![i] = "done"]
    /\ UNCHANGED <<query_setup, query_tx>>
    /\ UNCHANGED notSearch

\* The controller after thread::scope has joined the threads: the partial
\* results are reconciled and the result is sent.
Reconcile ==
    /\ query_pc # <<>> /\ \A i \in Shards : query_pc[i] = "done"
    /\ query_tx = <<>>
    /\ query_tx' = <<ReconcileLoop(query_results, 1, <<>>)>>
    /\ UNCHANGED <<query_results, query_setup, query_loaded, query_pc>>
    /\ UNCHANGED notSearch

SearchNext ==
    \/ \E i \in Shards : SetupLua(i)
    \/ \E i \in Shards : EvalQuery(i)
    \/ Reconcile

\* A shard ended with an error that is not JoinShutdown: its setup failed,
\* or its script failed or gave no list.
ShardFailed(i) ==
    query_setup[i] = "failed" \/ query_loaded[i] \in {"LuaError", "NotAList"}

\* C20: the dispatcher sends an error exactly when a shard ended with an error
\* that is not JoinShutdown, a failed setup being such an error; otherwise it
\* sends the id lists of the shards one after the other, with nothing for a
\* shard that ended with JoinShutdown.
C20_ErrorIffShardFailed ==
    query_tx # <<>> =>
        /\ ~query_tx[1].ok <=> \E i \in Shards : ShardFailed(i)
        /\ query_tx[1].ok =>
              query_tx[1].ids = Flatten([i \in Shards |-> query_results[i].ids])

----------------------------------------------------------------------------
(* The ranges of a query (gui/src/search/mod.rs, SearchState::new_query)    *)

MaxThreads == 3

MaxSpansLen == 7

\* RangeInclusive<u32>
RangeInclusive(start, end) == [start |-> start, end |-> end]

\* The ids of a range.
RangeIds(r) == {n \in 0..MaxSpansLen + 1 : r.start <= n /\ n <= r.end}

\* (x + 1) * items_per_thread - 1 as the integers have it: below 0 is where
\* the u32 subtraction underflows.
RangeEnd(x, per_thread) == (x + 1) * per_thread - 1

\* spans_len.saturating_sub(1)
SaturatingSub1(n) == IF n = 0 THEN 0 ELSE n - 1

\* ranges after the collect and the assignment to the last of them. An end
\* that underflowed without overflow checks has wrapped: it is the end of
\* the last range only, which the assignment overwrites.
BuildRanges(len0, t, per_thread) ==
    [x \in 1..t |->
        IF x = t THEN RangeInclusive((x - 1) * per_thread, SaturatingSub1(len0))
        ELSE RangeInclusive((x - 1) * per_thread, RangeEnd(x - 1, per_thread))]

DispatchIdle ==
    /\ num_threads = 0 /\ provider_len = 0 /\ overflow_checks = FALSE
    /\ spans_len = 0 /\ threads = 0 /\ items_per_thread = 0
    /\ ranges = <<>> /\ underflowed = FALSE /\ dispatch_pc = "off"

\* The settings dialog keeps num_threads in 1..=255; a provider has no span
\* before its root has arrived.
DispatchInit ==
    /\ num_threads \in 1..MaxThreads
    /\ provider_len \in 0..MaxSpansLen
    /\ overflow_checks \in BOOLEAN
    /\ spans_len = 0 /\ threads = 0 /\ items_per_thread = 0
    /\ ranges = <<>> /\ underflowed = FALSE /\ dispatch_pc = "idle"

\* new_query on the thread of the GUI: threads is read from the settings and
\* the controller is spawned.
NewQuery ==
    /\ dispatch_pc = "idle"
    /\ threads' = num_threads
    /\ dispatch_pc' = "spawned"
    /\ UNCHANGED <<num_threads, provider_len, overflow_checks, spans_len,
                   items_per_thread, ranges, underflowed>>
    /\ UNCHANGED notDispatch

\* The controller thread up to the ranges.
Controller ==
    /\ dispatch_pc = "spawned"
    /\ \E per_thread \in {provider_len \div threads} :
       \E t \in {IF per_thread = 0 THEN 1 ELSE threads} :
       \E ipt \in {IF per_thread = 0 THEN provider_len ELSE per_thread} :
       \E under \in {\E x \in 0..t - 1 : RangeEnd(x, ipt) < 0} :
          /\ spans_len' = provider_len
          /\ threads' = t
          /\ items_per_thread' = ipt
          /\ underflowed' = under
          /\ IF under /\ overflow_checks
             THEN /\ dispatch_pc' = "panicked"
                  /\ ranges' = <<>>
             ELSE /\ dispatch_pc' = "ranged"
                  /\ ranges' = BuildRanges(provider_len, t, ipt)
    /\ UNCHANGED <<num_threads, provider_len, overflow_checks>>
    /\ UNCHANGED notDispatch

DispatchNext == NewQuery \/ Controller

\* C21: the ranges are built whatever spans_len and the number of threads
\* are, no subtraction underflows, and the ranges are disjoint, each begins
\* where the one before it ended, and together they hold the ids below
\* spans_len and no other id.
C21_RangesPartition ==
    /\ dispatch_pc # "panicked"
    /\ dispatch_pc = "ranged" =>
          /\ ~underflowed
          /\ ranges[1].start = 0
          /\ \A x \in 1..Len(ranges) - 1 : ranges[x + 1].start = ranges[x].end + 1
          /\ \A x, y \in 1..Len(ranges) : x # y => RangeIds(ranges[x]) \cap RangeIds(ranges[y]) = {}
          /\ UNION {RangeIds(ranges[x]) : x \in 1..Len(ranges)} = 0..spans_len - 1

----------------------------------------------------------------------------
(* The lock around the trace provider: the API calls of a query script     *)
(* (entrace_query/src/lua_api.rs, setup_lua_on_arc_rwlock) and the frames  *)
(* of the GUI (gui/src/log.rs, LogState::on_frame)                         *)

NumScripts == 2

MaxCalls == 2

MaxInserts == 3

Scripts == 1..NumScripts

Min(a, b) == IF a < b THEN a ELSE b

LockIdle ==
    /\ tp_readers = {} /\ tp_len = 0 /\ tp_queued = 0 /\ tp_delayed = FALSE
    /\ script_pc = <<>> /\ script_reads = <<>>

\* The query threads have been spawned and have set up their Lua state; the
\* provider holds what earlier frames have inserted.
LockInit ==
    /\ tp_readers = {}
    /\ tp_len \in 0..1
    /\ tp_queued = 0
    /\ tp_delayed = FALSE
    /\ script_pc = [i \in Scripts |-> "running"]
    /\ script_reads = [i \in Scripts |-> <<>>]

\* The worker of the provider sends an Insert.
WorkerInsert ==
    /\ script_pc # <<>>
    /\ tp_len + tp_queued < MaxInserts
    /\ tp_queued' = tp_queued + 1
    /\ UNCHANGED <<tp_readers, tp_len, tp_delayed, script_pc, script_reads>>
    /\ UNCHANGED notLock

\* on_frame: try_write(), and frame_callback() under the write lock, which is
\* released when q goes out of scope; with the lock taken the frame does
\* nothing to the provider.
OnFrame ==
    /\ script_pc # <<>>
    /\ IF tp_readers = {}
       THEN /\ tp_len' = tp_len + Min(N, tp_queued)
            /\ tp_queued' = tp_queued - Min(N, tp_queued)
            /\ tp_delayed' = FALSE
       ELSE /\ tp_delayed' = TRUE
            /\ UNCHANGED <<tp_len, tp_queued>>
    /\ UNCHANGED <<tp_readers, script_pc, script_reads>>
    /\ UNCHANGED notLock

\* The script calls a function that lua_wrap made: tp.read() at the start of
\* the closure.
ApiCall(i) ==
    /\ script_pc # <<>> /\ script_pc[i] = "running"
    /\ Len(script_reads[i]) < MaxCalls
    /\ tp_readers' = tp_readers \cup {i}
    /\ script_pc' = [script_pc EXCEPT ![i] = "in_call"]
    /\ UNCHANGED <<tp_len, tp_queued, tp_delayed, script_reads>>
    /\ UNCHANGED notLock

\* The function, here len(), reads the provider and the closure returns:
\* the guard log is dropped.
ApiReturn(i) ==
    /\ script_pc # <<>> /\ script_pc[i] = "in_call"
    /\ script_reads' = [script_reads EXCEPT ![i] = Append(@, tp_len)]
    /\ tp_readers' = tp_readers \ {i}
    /\ script_pc' = [script_pc EXCEPT ![i] = "running"]
    /\ UNCHANGED <<tp_len, tp_queued, tp_delayed>>
    /\ UNCHANGED notLock

\* lua.load(text).eval() returns.
ScriptEnd(i) ==
    /\ script_pc # <<>> /\ script_pc[i] = "running"
    /\ script_pc' = [script_pc EXCEPT ![i] = "done"]
    /\ UNCHANGED <<tp_readers, tp_len, tp_queued, tp_delayed, script_reads>>
    /\ UNCHANGED notLock

LockNext ==
    \/ WorkerInsert
    \/ OnFrame
    \/ \E i \in Scripts : ApiCall(i)
    \/ \E i \in Scripts : ApiReturn(i)
    \/ \E i \in Scripts : ScriptEnd(i)

\* C22: the reads of the provider that one evaluation of a script makes see
\* the same provider: all its len() calls return the same number.
C22_ReadsOfOneEvaluationAgree ==
    \A i \in DOMAIN script_reads :
        \A j, k \in 1..Len(script_reads[i]) : script_reads[i][j] = script_reads[i][k]

----------------------------------------------------------------------------
(* IETStorage (entrace_core/src/remote/remote_storage.rs)                   *)

\* Largest number of new_span calls.
MaxStorageSpans == 2

NewSpanMessage(m) == [kind |-> "NewSpan", entry |-> m]

ShutdownMessage == [kind |-> "Shutdown", entry |-> TraceEntryRoot]

\* The entries new_span can send as its k-th: a parent among the ids so far,
\* with or without a message, the name telling the calls apart.
NewSpanEntries(k) ==
    {TraceEntry(p, msg, <<96 + k>>) : p \in 0..(k - 1), msg \in {<<>>, <<<<109>>>>}}

\* write_message: what it writes for one TraceEntry.
write_message(message, length_prefixed) ==
    IF length_prefixed
    THEN Le64(Len(EncodeEntry(message))) \o EncodeEntry(message)
    ELSE EncodeEntry(message)

StorageIdle ==
    /\ iet_length_prefixed = FALSE /\ iet_rx = <<>> /\ iet_sends = <<>>
    /\ iet_writable = <<>> /\ iet_writer_pc = "off" /\ iet_finish_pc = "off"
    /\ iet_sink = <<>>

\* IETStorage::init has spawned the writer.
StorageInit ==
    /\ iet_length_prefixed \in BOOLEAN
    /\ iet_rx = <<>> /\ iet_sends = <<>>
    /\ iet_writable = <<>>
    /\ iet_writer_pc = "magic"
    /\ iet_finish_pc = "open"
    /\ iet_sink = <<>>

\* new_span on any thread: sender.send(NewSpan(..)).ok(). Once the writer
\* has returned the receiver is gone and the send fails.
IETNewSpan ==
    /\ iet_writer_pc \notin {"off", "returned"}
    /\ Cardinality({i \in 1..Len(iet_sends) : iet_sends[i].kind = "NewSpan"})
           < MaxStorageSpans
    /\ \E m \in NewSpanEntries(Len(iet_sends) + 1) :
          /\ iet_rx' = Append(iet_rx, NewSpanMessage(m))
          /\ iet_sends' = Append(iet_sends, NewSpanMessage(m))
    /\ UNCHANGED <<iet_length_prefixed, iet_writable, iet_writer_pc, iet_finish_pc,
                   iet_sink>>
    /\ UNCHANGED notStorage

\* finish(), up to the join: Shutdown is sent.
IETFinishSend ==
    /\ iet_finish_pc = "open"
    /\ iet_rx' = Append(iet_rx, ShutdownMessage)
    /\ iet_sends' = Append(iet_sends, ShutdownMessage)
    /\ iet_finish_pc' = "shutdown_sent"
    /\ UNCHANGED <<iet_length_prefixed, iet_writable, iet_writer_pc, iet_sink>>
    /\ UNCHANGED notStorage

\* finish(): thread_handle.join() returns what the writer returned.
IETFinishJoin ==
    /\ iet_finish_pc = "shutdown_sent" /\ iet_writer_pc = "returned"
    /\ iet_sink' = iet_writable
    /\ iet_finish_pc' = "joined"
    /\ UNCHANGED <<iet_length_prefixed, iet_rx, iet_sends, iet_writable, iet_writer_pc>>
    /\ UNCHANGED notStorage

\* The writer: write_all(&magic).
IETWriterMagic ==
    /\ iet_writer_pc = "magic"
    /\ iet_writable' = iet_writable \o
          entrace_magic_for(1, IF iet_length_prefixed THEN FormatIETPrefix ELSE FormatIET)
    /\ iet_writer_pc' = "root"
    /\ UNCHANGED <<iet_length_prefixed, iet_rx, iet_sends, iet_finish_pc, iet_sink>>
    /\ UNCHANGED notStorage

\* The root record written without its length, whatever the configuration.
IETWriterRootBare ==
    /\ iet_writer_pc = "root"
    /\ iet_writable' = iet_writable \o write_message(TraceEntryRoot, FALSE)
    /\ iet_writer_pc' = "recv"
    /\ UNCHANGED <<iet_length_prefixed, iet_rx, iet_sends, iet_finish_pc, iet_sink>>
    /\ UNCHANGED notStorage

\* The writer: write_message(&mut buffer, TraceEntry::root(), &mut config).
IETWriterRoot ==
    /\ iet_writer_pc = "root"
    /\ iet_writable' = iet_writable \o write_message(TraceEntryRoot, iet_length_prefixed)
    /\ iet_writer_pc' = "recv"
    /\ UNCHANGED <<iet_length_prefixed, iet_rx, iet_sends, iet_finish_pc, iet_sink>>
    /\ UNCHANGED notStorage

\* The writer: one turn of `while let Ok(msg) = rx.recv()`; after the break
\* it flushes and returns config.writable.
IETWriterRecv ==
    /\ iet_writer_pc = "recv" /\ iet_rx # <<>>
    /\ iet_rx' = Tail(iet_rx)
    /\ IF Head(iet_rx).kind = "NewSpan"
       THEN /\ iet_writable' =
                  iet_writable \o write_message(Head(iet_rx).entry, iet_length_prefixed)
            /\ UNCHANGED iet_writer_pc
       ELSE /\ iet_writer_pc' = "returned"
            /\ UNCHANGED iet_writable
    /\ UNCHANGED <<iet_length_prefixed, iet_sends, iet_finish_pc, iet_sink>>
    /\ UNCHANGED notStorage

StorageNext ==
    \/ IETNewSpan
    \/ IETFinishSend
    \/ IETFinishJoin
    \/ IETWriterMagic
    \/ IETWriterRoot
    \/ IETWriterRecv

\* The entries sent before the first Shutdown, in the order of the sends.
RECURSIVE SentBeforeShutdown(_)
SentBeforeShutdown(sends) ==
    IF sends = <<>> \/ Head(sends).kind = "Shutdown" THEN <<>>
    ELSE <<Head(sends).entry>> \o SentBeforeShutdown(Tail(sends))

\* The records rs one after the other, without lengths.
RECURSIVE BareRecords(_)
BareRecords(rs) ==
    IF rs = <<>> THEN <<>> ELSE EncodeEntry(Head(rs)) \o BareRecords(Tail(rs))

\* C24: what finish() returns is the magic, the root record, and one record
\* for each new_span sent before the Shutdown, in the order of the sends;
\* with length_prefixed every record, the root too, follows the 8 bytes of
\* its length.
C24_SinkHoldsSentRecords ==
    iet_finish_pc = "joined" =>
        LET rs == <<TraceEntryRoot>> \o SentBeforeShutdown(iet_sends)
        IN iet_sink =
              IF iet_length_prefixed
              THEN entrace_magic_for(1, FormatIETPrefix) \o PrefixedRecords(rs)
              ELSE entrace_magic_for(1, FormatIET) \o BareRecords(rs)

C24_Witness ==
    /\ iet_finish_pc = "joined" /\ iet_length_prefixed
    /\ Len(iet_sends) = MaxStorageSpans + 1
    /\ iet_sends[2].kind = "Shutdown"
    /\ iet_sends[1].entry.message # <<>>

----------------------------------------------------------------------------
(* load_iet_trace over bytes (entrace_core/src/remote/file_iet_log_provider.rs) *)

\* Largest number of complete records of a stream.
MaxLoadRecords == 2

\* The streams of k complete records: TraceEntry::root(), then spans whose
\* parent is an earlier record.
LoadRecords(k) ==
    {rs \in [1..k -> {TraceEntryRoot} \cup UNION {NewSpanEntries(i) : i \in 1..k}] :
        /\ rs[1] = TraceEntryRoot
        /\ \A i \in 2..k : rs[i] \in NewSpanEntries(i - 1)}

RECURSIVE WrittenRecords(_, _)
\* What IETStorage's writer writes for the records rs.
WrittenRecords(rs, length_prefixed) ==
    IF rs = <<>> THEN <<>>
    ELSE write_message(Head(rs), length_prefixed)
         \o WrittenRecords(Tail(rs), length_prefixed)

\* Result<InitialIETData, LoadIETError>
InitialIETData(err, p, d) == [err |-> err, pool |-> p, data |-> d]

\* A pool without the entry kept for the root.
NoPoolEntry == <<>>

\* let mut pool: Vec<PoolEntry> = vec![PoolEntry::new()];
InitialPool == <<NewPoolEntry>>

\* After the loop: the lengths are compared.
LoadEnd(p, d) ==
    IF Len(d) # Len(p) THEN InitialIETData("LengthMismatch", p, d)
    ELSE InitialIETData("", p, d)

RECURSIVE LoadTraceLoop(_, _, _, _, _, _)
\* load_iet_trace's loop with the reader at pos: read_exact of the 8 bytes of
\* the length, decode_from_std_read, and the match on decoded.
LoadTraceLoop(inp, pos, length_prefixed, p, d, had_root) ==
    Eval(IF length_prefixed THEN pos + 8 ELSE pos, LAMBDA body :
        IF length_prefixed /\ body > Len(inp) THEN LoadEnd(p, d)
        ELSE Eval(DecodeEntry(inp, body), LAMBDA decoded :
            IF decoded.err = "eof" THEN LoadEnd(p, d)
            ELSE IF decoded.err # "" THEN InitialIETData("DecodeError", p, d)
            ELSE IF had_root /\ decoded.val.parent >= Len(p)
            THEN InitialIETData("panic", p, d)
            ELSE LoadTraceLoop(inp, decoded.pos, length_prefixed,
                               IF had_root
                               THEN Append(PushChild(p, decoded.val.parent, Len(p)),
                                           NewPoolEntry)
                               ELSE p,
                               Append(d, decoded.val), TRUE)))

load_iet_trace_bytes(inp, length_prefixed) ==
    LoadTraceLoop(inp, 0, length_prefixed, InitialPool, <<>>, FALSE)

LoadIdle ==
    /\ ld_records = <<>> /\ ld_reader = <<>> /\ ld_length_prefixed = FALSE
    /\ ld_result = InitialIETData("", <<>>, <<>>) /\ ld_pc = "off"

\* A stream a writer was cut off in: complete records, then the first bytes
\* of one more record, fewer than the record has.
LoadInit ==
    /\ ld_length_prefixed \in BOOLEAN
    /\ \E k \in 1..MaxLoadRecords :
       \E rs \in LoadRecords(k) :
       \E next \in NewSpanEntries(k) :
       \E cut \in 0..(Len(write_message(next, ld_length_prefixed)) - 1) :
          /\ ld_records = rs
          /\ ld_reader = WrittenRecords(rs, ld_length_prefixed)
                \o SubSeq(write_message(next, ld_length_prefixed), 1, cut)
    /\ ld_result = InitialIETData("", <<>>, <<>>)
    /\ ld_pc = "ready"

LoadIetTrace ==
    /\ ld_pc = "ready"
    /\ ld_result' = load_iet_trace_bytes(ld_reader, ld_length_prefixed)
    /\ ld_pc' = "loaded"
    /\ UNCHANGED <<ld_records, ld_reader, ld_length_prefixed>>
    /\ UNCHANGED notLoad

LoadNext == LoadIetTrace

\* C27: from a stream of k >= 1 complete records and a strict prefix of one
\* more, load_iet_trace returns Ok with the k records and a pool of k
\* entries, and neither LengthMismatch nor any other error.
C27_TruncatedTailDiscarded ==
    ld_pc = "loaded" =>
        /\ ld_result.err = ""
        /\ ld_result.data = ld_records
        /\ Len(ld_result.pool) = Len(ld_records)

C27_Witness ==
    /\ ld_pc = "loaded" /\ ld_length_prefixed
    /\ Len(ld_records) = MaxLoadRecords
    /\ Len(ld_reader) > Len(WrittenRecords(ld_records, TRUE)) + 8
    /\ ld_result.data = ld_records

-----------------------------------------------------------------------------
(***************************************************************************)
(* A predicate on meta.level (entrace_query/src/lua_api.rs).               *)
(***************************************************************************)

\* The largest constant a predicate is given.
MaxLevelConstant == 6

LevelNames == {"Trace", "Debug", "Info", "Warn", "Error"}

\* LevelContainer's discriminants: level as u8.
LevelDiscriminant(level) ==
    CASE level = "Trace" -> 0
      [] level = "Debug" -> 1
      [] level = "Info" -> 2
      [] level = "Warn" -> 3
      [] level = "Error" -> 4

level_to_u8(level) ==
    CASE level = "Trace" -> 1
      [] level = "Debug" -> 2
      [] level = "Info" -> 3
      [] level = "Warn" -> 4
      [] level = "Error" -> 5

\* x as u8 for an integer x.
AsU8(x) == x % 256

\* The constants of the predicates: unsigned and signed integers around
\* 1..5, one that is 3 modulo 256, and a string.
LevelConstants ==
    {EnValueOf("U64", x) : x \in (0..MaxLevelConstant) \cup {256 + 3}}
    \cup {EnValueOf("I64", x) : x \in ((0 - 1)..MaxLevelConstant) \cup {256 + 3}}
    \cup {EnValueOf("String", 0)}

\* meta_matches for the target "level".
meta_matches(meta, target, comparator, value) ==
    IF target = "level"
    THEN IF value.type \in {"U64", "I64"}
         THEN Cmp(LevelDiscriminant(meta.level), AsU8(value.v)) = comparator
         ELSE FALSE
    ELSE FALSE

LevelIdle ==
    /\ lv_meta = [level |-> "Trace"] /\ lv_relation = "Equal"
    /\ lv_value = EnValueOf("String", 0)
    /\ lv_result = <<>> /\ lv_reported = 0

LevelInit ==
    /\ lv_meta \in [level : LevelNames]
    /\ lv_relation \in {"Less", "Equal", "Greater"}
    /\ lv_value \in LevelConstants
    /\ lv_result = <<>> /\ lv_reported = 0

\* span_matches_filter with target_is_meta for the predicate.
MetaMatches ==
    /\ lv_result = <<>>
    /\ lv_result' = <<meta_matches(lv_meta, "level", lv_relation, lv_value)>>
    /\ UNCHANGED <<lv_meta, lv_relation, lv_value, lv_reported>>
    /\ UNCHANGED notLevel

\* en_metadata_level(id) for the span.
EnMetadataLevel ==
    /\ lv_reported = 0
    /\ lv_reported' = level_to_u8(lv_meta.level)
    /\ UNCHANGED <<lv_meta, lv_relation, lv_value, lv_result>>
    /\ UNCHANGED notLevel

LevelNext ==
    \/ MetaMatches
    \/ EnMetadataLevel

\* C30: a predicate on meta.level with the relation R and an integral
\* constant c in 1..5 holds for a span exactly when n R c, n being the level
\* of the span as en_metadata_level reports it (Trace = 1, ..., Error = 5).
C30_LevelPredicateUsesReportedNumber ==
    (/\ lv_result # <<>> /\ lv_reported # 0
     /\ lv_value.type \in {"U64", "I64"} /\ lv_value.v \in 1..5)
        => (lv_result[1] <=> (Cmp(lv_reported, lv_value.v) = lv_relation))

-----------------------------------------------------------------------------
(***************************************************************************)
(* values_match over every pair of variants                                *)
(* (entrace_query/src/lua_api.rs).                                         *)
(***************************************************************************)

\* The largest place of a value in its type.
MaxValue == 1

EnValueTypes == {"String", "Bytes", "Bool", "Float", "U64", "I64", "U128", "I128"}

\* The values of a span's attribute and of a predicate's constant.
MatchValues ==
    {EnValueOf(t, v) : t \in EnValueTypes, v \in 0..MaxValue}
    \cup {EnValueOf(t, 0 - 1) : t \in {"I64", "I128"}}

MatchIdle ==
    /\ vm_comparator = "Equal" /\ vm_span_value = EnValueOf("String", 0)
    /\ vm_value = EnValueOf("String", 0) /\ vm_result = <<>>

MatchInit ==
    /\ vm_comparator \in {"Less", "Equal", "Greater"}
    /\ vm_span_value \in MatchValues
    /\ vm_value \in MatchValues
    /\ vm_result = <<>>

\* span_matches_filter for an attribute the span has: values_match on it.
ValuesMatch ==
    /\ vm_result = <<>>
    /\ vm_result' = <<values_match(vm_comparator, vm_span_value, vm_value)>>
    /\ UNCHANGED <<vm_comparator, vm_span_value, vm_value>>
    /\ UNCHANGED notMatch

MatchNext == ValuesMatch

\* C31: values_match returns false, whatever the relation, when the value
\* of the span or the constant of the predicate is Bytes, U128 or I128.
C31_BytesAnd128NeverMatch ==
    (/\ vm_result # <<>>
     /\ \/ vm_span_value.type \in {"Bytes", "U128", "I128"}
        \/ vm_value.type \in {"Bytes", "U128", "I128"})
        => ~vm_result[1]

-----------------------------------------------------------------------------
(***************************************************************************)
(* normalize against materialize: the graph as it was built is             *)
(* materialized in a second evaluator, a copy of the first one taken       *)
(* before normalize (entrace_query/src/filtersets.rs).                     *)
(***************************************************************************)

NotMaterialized == Materialized(FALSE, <<>>)

EquivIdle == eq_plain = NotMaterialized

EquivInit == eq_plain = NotMaterialized

\* The evaluator with a graph of DNFs pushed, and either matcher.
EquivEvaluatorInit ==
    /\ \E e \in DnfForests \cup DnfChains :
          ev_pool = e.pool /\ predicates = e.predicates
    /\ results = <<>>
    /\ nroot = 0 /\ worklist = <<>> /\ parent_of = <<>> /\ any_action = FALSE
    /\ matcher \in {"YesMan", "En"} /\ epc = "building"
    /\ lua_filters = <<>> /\ lua_op = "none" /\ lua_fs = NoFilterset /\ lua_out = {}

\* materialize(matcher, root) in the copy of the evaluator.
MaterializePlain ==
    /\ epc = "building" /\ eq_plain = NotMaterialized
    /\ \E id \in Roots(ev_pool) :
          eq_plain' = materialize(ev_pool, predicates, matcher, <<>>, id)
    /\ UNCHANGED notEquiv

EquivNext ==
    \/ MaterializePlain
    \/ Normalize
    \/ RewriteOne
    \/ Materialize

\* C37: materialize after normalize(root) leaves for the root the id set
\* that materialize leaves for the root of the graph as it was built.
C37_NormalizePreservesResult ==
    (/\ epc = "materialized" /\ parent_of # <<>>
     /\ eq_plain # NotMaterialized /\ ~eq_plain.panic)
        => \A id \in Roots(ev_pool) : results[id] = eq_plain.results[id]

----------------------------------------------------------------------------
(***************************************************************************)
(* Matcher<EnValue> for EnMatcher: the trait's default subset_matching_dnf *)
(* against EnMatcher's own (entrace_query/src/filtersets.rs,               *)
(* entrace_query/src/lua_api.rs).                                          *)
(***************************************************************************)

\* Most clauses of a clause list, most predicates of a clause.
MaxDnfClauses == 2

MaxClausePredicates == 2

\* The predicate pool the clauses index: the attribute "a" of span i is i,
\* no span has an attribute "b".
OverridePredicates ==
    <<Predicate("a", "Equal", 0), Predicate("a", "Greater", 0), Predicate("b", "Equal", 0)>>

\* The clause lists and the inputs: an input may hold one id above the ids of
\* the log.
OverrideClauses ==
    UNION {[1..n -> 0..(Len(OverridePredicates) - 1)] : n \in 0..MaxClausePredicates}

OverrideClauseLists == UNION {[1..n -> OverrideClauses] : n \in 0..MaxDnfClauses}

OverrideInputs == SUBSET (0..(MaxId + 1))

\* EnMatcher's subset_matching: the ids of the input the predicate holds for.
\* The lookup of an id that is not in the log panics.
EnMatcher_subset_matching(predicate, input) ==
    IF (input \ Ids) # {} THEN Matched(TRUE, {})
    ELSE Matched(FALSE,
                 {id \in input :
                     span_matches_filter(id, predicate.attr, predicate.rel,
                                         predicate.constant)})

\* The trait's default subset_matching_dnf over EnMatcher's subset_matching:
\* predicates.map(|x| x.map(|y| self.subset_matching(y, input)).intersection()).union()
Matcher_subset_matching_dnf(preds, clauses, input) ==
    LET call(i, j) == EnMatcher_subset_matching(At(preds, clauses[i][j]), input)
    IN IF \E i \in 1..Len(clauses) : \E j \in 1..Len(clauses[i]) : call(i, j).panic
       THEN Matched(TRUE, {})
       ELSE Matched(FALSE,
                    MultiUnion([i \in 1..Len(clauses) |->
                        MultiIntersection([j \in 1..Len(clauses[i]) |-> call(i, j).bm])]))

OverrideIdle ==
    /\ md_clauses = <<>> /\ md_input = {}
    /\ md_default = <<>> /\ md_override = <<>>

OverrideInit ==
    /\ md_clauses \in OverrideClauseLists
    /\ md_input \in OverrideInputs
    /\ md_default = <<>> /\ md_override = <<>>

\* Both implementations are called with the clause list and the input.
SubsetMatchingDnf ==
    /\ md_default = <<>>
    /\ md_default' = <<Matcher_subset_matching_dnf(OverridePredicates, md_clauses, md_input)>>
    /\ md_override' = <<EnMatcher_subset_matching_dnf(OverridePredicates, md_clauses, md_input)>>
    /\ UNCHANGED <<md_clauses, md_input>>
    /\ UNCHANGED notOverride

OverrideNext == SubsetMatchingDnf

\* C39: for every clause list, an empty one and clauses with no predicates
\* included, and every input set, EnMatcher's subset_matching_dnf returns the
\* id set the trait's default subset_matching_dnf returns.
C39_OverrideEqualsDefault ==
    md_default # <<>> => md_override = md_default

----------------------------------------------------------------------------
(***************************************************************************)
(* load_trace of an IET file and the file-watch worker, over the bytes the *)
(* storage writes (entrace_core/src/lib.rs,                                *)
(* entrace_core/src/remote/file_iet_log_provider.rs).                      *)
(***************************************************************************)

\* Most records the file holds when it is opened, most records written to
\* it afterwards.
MaxWatchInitial == 2

MaxWatchAppended == 2

RECURSIVE OnModifyFramed(_, _, _, _, _, _)
\* on_modify's loop for a worker whose length_prefixed is the given one, the
\* reader at pos: read_exact of the 8 bytes of the length when
\* length_prefixed, decode_from_std_read, and the match on decoded.
OnModifyFramed(inp, pos, length_prefixed, lgp, rs, entries) ==
    IF length_prefixed /\ pos + 8 > Len(inp)
    THEN Modified("none", Len(inp), lgp, rs, entries, 0)
    ELSE Eval(DecodeEntry(inp, IF length_prefixed THEN pos + 8 ELSE pos), LAMBDA decoded :
        CASE decoded.err = "" ->
                 OnModifyFramed(inp, decoded.pos, length_prefixed, decoded.pos, Standby,
                                Append(entries, decoded.val))
          [] decoded.err = "eof" ->
                 Modified("none", lgp, lgp, rs, entries, 0)
          [] OTHER ->
                 IF rs.kind = "Retrying"
                 THEN IF rs.retries > MAX_RETRIES
                      THEN Modified("NoMoreRetries", decoded.pos, lgp, rs, entries, 0)
                      ELSE OnModifyFramed(inp, decoded.pos, length_prefixed, lgp,
                                          Retrying(rs.retries + 1), entries)
                 ELSE OnModifyFramed(inp, decoded.pos, length_prefixed, lgp, rs, entries))

WatchIdle ==
    /\ fw_length_prefixed = FALSE /\ fw_records = <<>> /\ fw_file = <<>>
    /\ fw_pc = "off" /\ fw_worker_length_prefixed = FALSE
    /\ fw_reader_pos = 0 /\ fw_last_good_position = 0 /\ fw_read_state = Standby
    /\ fw_tx = <<>> /\ fw_event_tx = <<>> /\ fw_arx = 0

\* A file IETStorage's writer wrote, plain or length-prefixed, that holds
\* the root record and perhaps more records.
WatchInit ==
    /\ fw_length_prefixed \in BOOLEAN
    /\ \E k \in 1..MaxWatchInitial : fw_records \in LoadRecords(k)
    /\ fw_file = WrittenRecords(fw_records, fw_length_prefixed)
    /\ fw_pc = "closed" /\ fw_worker_length_prefixed = FALSE
    /\ fw_reader_pos = 0 /\ fw_last_good_position = 0 /\ fw_read_state = Standby
    /\ fw_tx = <<>> /\ fw_event_tx = <<>> /\ fw_arx = 0

\* load_trace for StorageFormat::IET and StorageFormat::IETPrefix:
\* FileIETLogProvider::new(file, config.iht, length_prefixed) up to the spawn
\* of the worker, whose first message is ReplaceData(initial.data).
LoadTrace ==
    /\ fw_pc = "closed"
    /\ \E initial \in {load_iet_trace_bytes(fw_file, fw_length_prefixed)} :
          IF initial.err # ""
          THEN /\ fw_pc' = "failed"
               /\ fw_event_tx' = Append(fw_event_tx, initial.err)
               /\ UNCHANGED fw_tx
          ELSE /\ fw_pc' = "loaded"
               /\ fw_tx' = initial.data
               /\ UNCHANGED fw_event_tx
    /\ UNCHANGED <<fw_length_prefixed, fw_records, fw_file, fw_worker_length_prefixed,
                   fw_reader_pos, fw_last_good_position, fw_read_state, fw_arx>>
    /\ UNCHANGED notWatch

\* The worker thread with FileWatchConfig::Watch:
\* IETNotifyWorker::new(tx, &mut reader, file_path, config2, false), the
\* reader being where the load left the file, at its end, and work() up to
\* the watcher being set up.
WatchWorkerNew ==
    /\ fw_pc = "loaded"
    /\ fw_worker_length_prefixed' = FALSE
    /\ fw_reader_pos' = Len(fw_file)
    /\ fw_last_good_position' = Len(fw_file)
    /\ fw_read_state' = Standby
    /\ fw_pc' = "watching"
    /\ UNCHANGED <<fw_length_prefixed, fw_records, fw_file, fw_tx, fw_event_tx, fw_arx>>
    /\ UNCHANGED notWatch

\* The traced program's storage writes one more record with the framing of
\* the file, and the watcher gets a Modify(Data) event.
WatchAppend ==
    /\ fw_pc = "watching"
    /\ Len(fw_records) < MaxWatchInitial + MaxWatchAppended
    /\ Len(fw_file) = Len(WrittenRecords(fw_records, fw_length_prefixed))
    /\ \E next \in NewSpanEntries(Len(fw_records)) :
          /\ fw_records' = Append(fw_records, next)
          /\ fw_file' = fw_file \o write_message(next, fw_length_prefixed)
    /\ fw_arx' = fw_arx + 1
    /\ UNCHANGED <<fw_length_prefixed, fw_pc, fw_worker_length_prefixed, fw_reader_pos,
                   fw_last_good_position, fw_read_state, fw_tx, fw_event_tx>>
    /\ UNCHANGED notWatch

\* work()'s loop: a Modify(Data) event is received, on_modify runs and
\* send_entries sends what it decoded.
WatchWork ==
    /\ fw_pc = "watching" /\ fw_arx > 0
    /\ fw_arx' = fw_arx - 1
    /\ \E m \in {OnModifyFramed(fw_file, fw_reader_pos, fw_worker_length_prefixed,
                                fw_last_good_position, fw_read_state, <<>>)} :
          /\ fw_reader_pos' = m.pos
          /\ fw_last_good_position' = m.last_good_position
          /\ fw_read_state' = m.read_state
          /\ fw_tx' = fw_tx \o m.entries
          /\ fw_event_tx' = IF m.err = "none" THEN fw_event_tx
                            ELSE Append(fw_event_tx, m.err)
    /\ UNCHANGED <<fw_length_prefixed, fw_records, fw_file, fw_pc,
                   fw_worker_length_prefixed>>
    /\ UNCHANGED notWatch

WatchNext ==
    \/ LoadTrace
    \/ WatchWorkerNew
    \/ WatchAppend
    \/ WatchWork

\* C40: the worker decodes the records appended after the initial load with
\* the framing the load used, the 8 bytes of the length before each record
\* of an IET-prefixed file and none for a plain one: once it has handled
\* every event, what it sent after the initial data are the records that
\* were appended.
C40_WorkerFramingIsLoadFraming ==
    (fw_pc = "watching" /\ fw_arx = 0) => fw_tx = fw_records

----------------------------------------------------------------------------
(* Specifications *)

InitProvider == ProviderInit /\ TreeIdle /\ JoinIdle /\ RemoteIdle /\ ConvertIdle
    /\ FilterIdle /\ NotifyIdle /\ SearchIdle /\ DispatchIdle /\ LockIdle
    /\ WatchIdle /\ OverrideIdle /\ EquivIdle /\ MatchIdle /\ LevelIdle
    /\ LoadIdle /\ StorageIdle

SpecProvider == InitProvider /\ [][ProviderNext]_vars

InitTree == ProviderIdle /\ TreeInit /\ JoinIdle /\ RemoteIdle /\ ConvertIdle
    /\ FilterIdle /\ NotifyIdle /\ SearchIdle /\ DispatchIdle /\ LockIdle
    /\ WatchIdle /\ OverrideIdle /\ EquivIdle /\ MatchIdle /\ LevelIdle
    /\ LoadIdle /\ StorageIdle

SpecTree == InitTree /\ [][TreeNext]_vars

InitJoin == ProviderIdle /\ TreeIdle /\ JoinInit /\ RemoteIdle /\ ConvertIdle
    /\ FilterIdle /\ NotifyIdle /\ SearchIdle /\ DispatchIdle /\ LockIdle
    /\ WatchIdle /\ OverrideIdle /\ EquivIdle /\ MatchIdle /\ LevelIdle
    /\ LoadIdle /\ StorageIdle

SpecJoin == InitJoin /\ [][JoinNext]_vars

InitRemote == ProviderIdle /\ TreeIdle /\ JoinIdle /\ RemoteInit /\ ConvertIdle
    /\ FilterIdle /\ NotifyIdle /\ SearchIdle /\ DispatchIdle /\ LockIdle
    /\ WatchIdle /\ OverrideIdle /\ EquivIdle /\ MatchIdle /\ LevelIdle
    /\ LoadIdle /\ StorageIdle

SpecRemote == InitRemote /\ [][RemoteNext]_vars

\* The worker is a thread of its own: it takes its next step as long as it
\* has one.
SpecRemoteLive == InitRemote /\ [][RemoteNext]_vars /\ WF_vars(RemoteWorker)

InitConvert == ProviderIdle /\ TreeIdle /\ JoinIdle /\ RemoteIdle /\ ConvertInit
    /\ FilterIdle /\ NotifyIdle /\ SearchIdle /\ DispatchIdle /\ LockIdle
    /\ WatchIdle /\ OverrideIdle /\ EquivIdle /\ MatchIdle /\ LevelIdle
    /\ LoadIdle /\ StorageIdle

SpecConvert == InitConvert /\ [][ConvertNext]_vars

InitEvaluator == ProviderIdle /\ TreeIdle /\ JoinIdle /\ RemoteIdle /\ ConvertIdle
    /\ EvaluatorInit /\ NotifyIdle /\ SearchIdle /\ DispatchIdle /\ LockIdle
    /\ WatchIdle /\ OverrideIdle /\ EquivIdle /\ MatchIdle /\ LevelIdle
    /\ LoadIdle /\ StorageIdle

SpecEvaluator == InitEvaluator /\ [][EvaluatorNext]_vars

InitLua == ProviderIdle /\ TreeIdle /\ JoinIdle /\ RemoteIdle /\ ConvertIdle
    /\ LuaInit /\ NotifyIdle /\ SearchIdle /\ DispatchIdle /\ LockIdle
    /\ WatchIdle /\ OverrideIdle /\ EquivIdle /\ MatchIdle /\ LevelIdle
    /\ LoadIdle /\ StorageIdle

SpecLua == InitLua /\ [][LuaNext]_vars

InitNormalize == ProviderIdle /\ TreeIdle /\ JoinIdle /\ RemoteIdle /\ ConvertIdle
    /\ NormalizeInit /\ NotifyIdle /\ SearchIdle /\ DispatchIdle /\ LockIdle
    /\ WatchIdle /\ OverrideIdle /\ EquivIdle /\ MatchIdle /\ LevelIdle
    /\ LoadIdle /\ StorageIdle

\* normalize runs on the thread that called it: it takes its next step as
\* long as it has one.
SpecNormalize == InitNormalize /\ [][NormalizeNext]_vars /\ WF_vars(RewriteOne)

InitNotify == ProviderIdle /\ TreeIdle /\ JoinIdle /\ RemoteIdle /\ ConvertIdle
    /\ FilterIdle /\ NotifyInit /\ SearchIdle /\ DispatchIdle /\ LockIdle
    /\ WatchIdle /\ OverrideIdle /\ EquivIdle /\ MatchIdle /\ LevelIdle
    /\ LoadIdle /\ StorageIdle

SpecNotify == InitNotify /\ [][NotifyNext]_vars

InitSearch == ProviderIdle /\ TreeIdle /\ JoinIdle /\ RemoteIdle /\ ConvertIdle
    /\ FilterIdle /\ NotifyIdle /\ SearchInit /\ DispatchIdle /\ LockIdle
    /\ WatchIdle /\ OverrideIdle /\ EquivIdle /\ MatchIdle /\ LevelIdle
    /\ LoadIdle /\ StorageIdle

SpecSearch == InitSearch /\ [][SearchNext]_vars

InitDispatch == ProviderIdle /\ TreeIdle /\ JoinIdle /\ RemoteIdle /\ ConvertIdle
    /\ FilterIdle /\ NotifyIdle /\ SearchIdle /\ DispatchInit /\ LockIdle
    /\ WatchIdle /\ OverrideIdle /\ EquivIdle /\ MatchIdle /\ LevelIdle
    /\ LoadIdle /\ StorageIdle

SpecDispatch == InitDispatch /\ [][DispatchNext]_vars

InitLock == ProviderIdle /\ TreeIdle /\ JoinIdle /\ RemoteIdle /\ ConvertIdle
    /\ FilterIdle /\ NotifyIdle /\ SearchIdle /\ DispatchIdle /\ LockInit
    /\ WatchIdle /\ OverrideIdle /\ EquivIdle /\ MatchIdle /\ LevelIdle
    /\ LoadIdle /\ StorageIdle

SpecLock == InitLock /\ [][LockNext]_vars

InitStorage == ProviderIdle /\ TreeIdle /\ JoinIdle /\ RemoteIdle /\ ConvertIdle
    /\ FilterIdle /\ NotifyIdle /\ SearchIdle /\ DispatchIdle /\ LockIdle
    /\ WatchIdle /\ OverrideIdle /\ EquivIdle /\ MatchIdle /\ LevelIdle
    /\ LoadIdle /\ StorageInit

SpecStorage == InitStorage /\ [][StorageNext]_vars

InitFrame == FrameInit /\ TreeIdle /\ JoinIdle /\ RemoteIdle /\ ConvertIdle
    /\ FilterIdle /\ NotifyIdle /\ SearchIdle /\ DispatchIdle /\ LockIdle
    /\ WatchIdle /\ OverrideIdle /\ EquivIdle /\ MatchIdle /\ LevelIdle
    /\ LoadIdle /\ StorageIdle

SpecFrame == InitFrame /\ [][FrameNext]_vars

\* The GUI draws frame after frame: on_frame is called again, and a
\* frame_callback() that was entered runs to its return.
SpecFrameLive ==
    InitFrame /\ [][FrameNext]_vars
        /\ WF_vars(FrameStart) /\ WF_vars(FrameTryRecv) /\ WF_vars(FrameReturn)

InitLoad == ProviderIdle /\ TreeIdle /\ JoinIdle /\ RemoteIdle /\ ConvertIdle
    /\ FilterIdle /\ NotifyIdle /\ SearchIdle /\ DispatchIdle /\ LockIdle
    /\ WatchIdle /\ OverrideIdle /\ EquivIdle /\ MatchIdle /\ LevelIdle
    /\ StorageIdle /\ LoadInit

SpecLoad == InitLoad /\ [][LoadNext]_vars

InitLevel == ProviderIdle /\ TreeIdle /\ JoinIdle /\ RemoteIdle /\ ConvertIdle
    /\ FilterIdle /\ NotifyIdle /\ SearchIdle /\ DispatchIdle /\ LockIdle
    /\ WatchIdle /\ OverrideIdle /\ EquivIdle /\ MatchIdle /\ StorageIdle
    /\ LoadIdle /\ LevelInit

SpecLevel == InitLevel /\ [][LevelNext]_vars

InitMatch == ProviderIdle /\ TreeIdle /\ JoinIdle /\ RemoteIdle /\ ConvertIdle
    /\ FilterIdle /\ NotifyIdle /\ SearchIdle /\ DispatchIdle /\ LockIdle
    /\ WatchIdle /\ OverrideIdle /\ EquivIdle /\ StorageIdle /\ LoadIdle
    /\ LevelIdle /\ MatchInit

SpecMatch == InitMatch /\ [][MatchNext]_vars

InitEquiv == ProviderIdle /\ TreeIdle /\ JoinIdle /\ RemoteIdle /\ ConvertIdle
    /\ EquivEvaluatorInit /\ NotifyIdle /\ SearchIdle /\ DispatchIdle
    /\ WatchIdle /\ OverrideIdle /\ LockIdle /\ StorageIdle /\ LoadIdle
    /\ LevelIdle /\ MatchIdle /\ EquivInit

SpecEquiv == InitEquiv /\ [][EquivNext]_vars

InitOverride == ProviderIdle /\ TreeIdle /\ JoinIdle /\ RemoteIdle /\ ConvertIdle
    /\ FilterIdle /\ NotifyIdle /\ SearchIdle /\ DispatchIdle /\ LockIdle
    /\ WatchIdle /\ StorageIdle /\ LoadIdle /\ LevelIdle /\ MatchIdle
    /\ EquivIdle /\ OverrideInit

SpecOverride == InitOverride /\ [][OverrideNext]_vars

InitWatch == ProviderIdle /\ TreeIdle /\ JoinIdle /\ RemoteIdle /\ ConvertIdle
    /\ FilterIdle /\ NotifyIdle /\ SearchIdle /\ DispatchIdle /\ LockIdle
    /\ StorageIdle /\ LoadIdle /\ LevelIdle /\ MatchIdle /\ EquivIdle
    /\ OverrideIdle /\ WatchInit

SpecWatch == InitWatch /\ [][WatchNext]_vars

=============================================================================
